---- MODULE Spec2Model ----
(***************************************************************************)
(* A model of csv2json (src/csv2json/csv2json.py): delimiter detection,    *)
(* type detection, column type inference, the transform engine, the two    *)
(* record parsers and the document emitter.                                *)
(*                                                                         *)
(* Text is a sequence of one-character strings.  A file is a sequence of   *)
(* lines, each line standing for its characters followed by "\n"; a read   *)
(* position is a line index (every tell/seek of the program happens at a   *)
(* line boundary).  A Python value is a record [tag, n, s]: None, bool     *)
(* (n is 0 or 1), int, float (n is the value times FloatScale, exact for   *)
(* the decimal strings of the bounded domains) and str (s is its text).    *)
(***************************************************************************)
EXTENDS Integers, Sequences, FiniteSets, TLC

VARIABLES
  pc,          \* the position of the call under study
  raw_value,   \* detect_type: its argument
  detected,    \* detect_type: its result
  sample,      \* detect_delimiter: the sample text
  chosen,      \* detect_delimiter: the result of a first call on sample
  chosen_again,   \* detect_delimiter: the result of a second call on sample
  transform_arg,  \* parse_transforms: the directive, <<>> when there is none
  doc_input,      \* convert_data_types: the rows first passed in
  doc_transforms, \* convert_data_types: the transforms passed in
  doc_outputs,    \* convert_data_types: what each successive pass returned
  loaded,         \* save_json: data, [keyed, rows]: dicts when keyed, lists when not
  id_option,      \* save_json: id_field, the empty text when there is none
  emitted,        \* save_json: the object handed to json.dump
  fp_in,          \* load_csv: the lines of the input file
  fp_pos,         \* load_csv: the read position, the number of lines before it
  options,        \* load_csv: its keyword arguments
  delimiter_used, \* load_csv: the delimiter given or detected, <<>> before that
  stderr,         \* the messages written to the diagnostic stream
  primary_start,  \* load_csv: the position the primary parser was started at
  fallback_start, \* fallback_csv_parse: the position of the first line it keeps
  json_file,      \* convert: the output file, [exists, text]
  sort_keys       \* convert: the keyword argument sort_keys

detectTypeVars == <<raw_value, detected>>
detectDelimiterVars == <<sample, chosen, chosen_again>>
convertVars == <<transform_arg, doc_input, doc_transforms, doc_outputs>>
saveVars == <<loaded, id_option, emitted>>
loadVars == <<fp_in, fp_pos, options, delimiter_used, stderr, primary_start, fallback_start>>
fileVars == <<json_file, sort_keys>>
vars == <<pc, detectTypeVars, detectDelimiterVars, convertVars, saveVars, loadVars, fileVars>>

\* ------------------------------------------------------------------ bounds
\* Longest raw value of the exhaustive type-detector domain.
MaxValLen == 3

\* ------------------------------------------------------------ python values
RECURSIVE Pow10(_)
Pow10(k) == IF k = 0 THEN 1 ELSE 10 * Pow10(k - 1)

\* Fraction digits a modelled float keeps: every decimal string of the domains fits.
FracDigits == MaxValLen + 1
FloatScale == Pow10(FracDigits)

\* float(n) raises OverflowError for an int n that no float can hold (2**1024 and
\* beyond), and float(t) gives inf for a text t that spells such a number.  The
\* numbers of the model are narrow, and so is its float: FloatLimit stands for the
\* first int beyond the floats, and every number the model means to be an
\* ordinary one is below it.  inf is written as a float beyond every other one;
\* it is no whole number (inf.is_integer() is False).
FloatLimit == 1000
Infinity == FloatLimit * FloatScale + 1

None == [tag |-> "null", n |-> 0, s |-> <<>>]
BoolV(b) == [tag |-> "bool", n |-> IF b THEN 1 ELSE 0, s |-> <<>>]
IntV(i) == [tag |-> "int", n |-> i, s |-> <<>>]
\* FloatV(m) is the float m / FloatScale.
FloatV(m) == [tag |-> "float", n |-> m, s |-> <<>>]
StrV(t) == [tag |-> "str", n |-> 0, s |-> t]

IsNone(v) == v.tag = "null"
IsBool(v) == v.tag = "bool"
\* isinstance(v, int): bool is a subclass of int
IsInstInt(v) == v.tag \in {"int", "bool"}
IsFloat(v) == v.tag = "float"
IsStr(v) == v.tag = "str"

\* --------------------------------------------------------------- str methods
Whitespace == {" ", "\t", "\n", "\r"}
Digits == {"0", "1", "2", "3", "4", "5", "6", "7", "8", "9"}

DigitVal(c) ==
  CASE c = "0" -> 0 [] c = "1" -> 1 [] c = "2" -> 2 [] c = "3" -> 3 [] c = "4" -> 4
    [] c = "5" -> 5 [] c = "6" -> 6 [] c = "7" -> 7 [] c = "8" -> 8 [] c = "9" -> 9

\* ASCII letters; every letter of the modelled texts is one.
LowerChar(c) ==
  CASE c = "A" -> "a" [] c = "B" -> "b" [] c = "C" -> "c" [] c = "D" -> "d" [] c = "E" -> "e"
    [] c = "F" -> "f" [] c = "G" -> "g" [] c = "H" -> "h" [] c = "I" -> "i" [] c = "J" -> "j"
    [] c = "K" -> "k" [] c = "L" -> "l" [] c = "M" -> "m" [] c = "N" -> "n" [] c = "O" -> "o"
    [] c = "P" -> "p" [] c = "Q" -> "q" [] c = "R" -> "r" [] c = "S" -> "s" [] c = "T" -> "t"
    [] c = "U" -> "u" [] c = "V" -> "v" [] c = "W" -> "w" [] c = "X" -> "x" [] c = "Y" -> "y"
    [] c = "Z" -> "z"
    [] OTHER -> c

UpperChar(c) ==
  CASE c = "a" -> "A" [] c = "b" -> "B" [] c = "c" -> "C" [] c = "d" -> "D" [] c = "e" -> "E"
    [] c = "f" -> "F" [] c = "g" -> "G" [] c = "h" -> "H" [] c = "i" -> "I" [] c = "j" -> "J"
    [] c = "k" -> "K" [] c = "l" -> "L" [] c = "m" -> "M" [] c = "n" -> "N" [] c = "o" -> "O"
    [] c = "p" -> "P" [] c = "q" -> "Q" [] c = "r" -> "R" [] c = "s" -> "S" [] c = "t" -> "T"
    [] c = "u" -> "U" [] c = "v" -> "V" [] c = "w" -> "W" [] c = "x" -> "X" [] c = "y" -> "Y"
    [] c = "z" -> "Z"
    [] OTHER -> c

IsAlpha(c) == LowerChar(c) # c \/ UpperChar(c) # c

\* str.lower(), str.upper()
Lower(t) == [i \in 1..Len(t) |-> LowerChar(t[i])]
Upper(t) == [i \in 1..Len(t) |-> UpperChar(t[i])]

RECURSIVE LStrip(_, _)
LStrip(t, cs) == IF t # <<>> /\ Head(t) \in cs THEN LStrip(Tail(t), cs) ELSE t

RECURSIVE RStrip(_, _)
RStrip(t, cs) ==
  IF t # <<>> /\ t[Len(t)] \in cs THEN RStrip(SubSeq(t, 1, Len(t) - 1), cs) ELSE t

\* str.strip(chars); str.strip() strips whitespace
StripChars(t, cs) == RStrip(LStrip(t, cs), cs)
Strip(t) == StripChars(t, Whitespace)

\* c in t
Contains(t, c) == \E i \in 1..Len(t) : t[i] = c

\* t.count(c)
RECURSIVE Count(_, _)
Count(t, c) ==
  IF t = <<>> THEN 0 ELSE (IF Head(t) = c THEN 1 ELSE 0) + Count(Tail(t), c)

\* t.replace(old, new) for a one-character old
RECURSIVE ReplaceChar(_, _, _)
ReplaceChar(t, old, new) ==
  IF t = <<>> THEN <<>>
  ELSE (IF Head(t) = old THEN new ELSE <<Head(t)>>) \o ReplaceChar(Tail(t), old, new)

AllDigits(t) == t # <<>> /\ \A i \in 1..Len(t) : t[i] \in Digits

RECURSIVE DigitsVal(_)
DigitsVal(t) ==
  IF t = <<>> THEN 0 ELSE 10 * DigitsVal(SubSeq(t, 1, Len(t) - 1)) + DigitVal(t[Len(t)])

\* Index of the first c in t, 0 when there is none.
IndexOf(t, c) ==
  IF Contains(t, c) THEN CHOOSE i \in 1..Len(t) : t[i] = c /\ \A j \in 1..(i - 1) : t[j] # c
  ELSE 0

\* re.match(r'^-?\d+(SEP\d+)?$', t): "$" also matches before one trailing "\n".
ReMatchNumber(t, sep) ==
  LET body == IF t # <<>> /\ t[Len(t)] = "\n" THEN SubSeq(t, 1, Len(t) - 1) ELSE t
      u == IF body # <<>> /\ Head(body) = "-" THEN Tail(body) ELSE body
      k == IndexOf(u, sep)
  IN IF k = 0 THEN AllDigits(u)
     ELSE AllDigits(SubSeq(u, 1, k - 1)) /\ AllDigits(SubSeq(u, k + 1, Len(u)))

\* int(t) for text: surrounding whitespace stripped, one optional sign, digits.
\* The result is <<ok, value>>.
PyInt(t) ==
  LET IntOfDigits(neg, d) ==
        IF AllDigits(d) THEN <<TRUE, IF neg THEN -DigitsVal(d) ELSE DigitsVal(d)>>
        ELSE <<FALSE, 0>>
      IntOfStripped(u) ==
        IntOfDigits(u # <<>> /\ Head(u) = "-",
                    IF u # <<>> /\ Head(u) \in {"-", "+"} THEN Tail(u) ELSE u)
  IN IntOfStripped(Strip(t))

\* float(t) for text without exponent, inf, nan or underscores: surrounding
\* whitespace stripped, one optional sign, digits with an optional point, at least
\* one digit.  The result is <<ok, value * FloatScale>>.
PyFloat(t) ==
  LET FloatOfParts(neg, ip, fp) ==
        LET ok == /\ ip \o fp # <<>>
                  /\ \A i \in 1..Len(ip) : ip[i] \in Digits
                  /\ \A i \in 1..Len(fp) : fp[i] \in Digits
                  /\ Len(fp) <= FracDigits
            exact == DigitsVal(ip) * FloatScale + DigitsVal(fp) * Pow10(FracDigits - Len(fp))
            mag == IF exact >= FloatLimit * FloatScale THEN Infinity ELSE exact
        IN IF ok THEN <<TRUE, IF neg THEN -mag ELSE mag>> ELSE <<FALSE, 0>>
      FloatOfDigits(neg, d, k) ==
        FloatOfParts(neg, IF k = 0 THEN d ELSE SubSeq(d, 1, k - 1),
                          IF k = 0 THEN <<>> ELSE SubSeq(d, k + 1, Len(d)))
      FloatOfUnsigned(u, d) == FloatOfDigits(u # <<>> /\ Head(u) = "-", d, IndexOf(d, "."))
      FloatOfStripped(u) ==
        FloatOfUnsigned(u, IF u # <<>> /\ Head(u) \in {"-", "+"} THEN Tail(u) ELSE u)
  IN FloatOfStripped(Strip(t))

\* ----------------------------------------------------------------- detect_type
TrueWords == {<<"t", "r", "u", "e">>, <<"y", "e", "s">>, <<"y">>, <<"1">>}
FalseWords == {<<"f", "a", "l", "s", "e">>, <<"n", "o">>, <<"n">>, <<"0">>}

\* The numeric branch of detect_type for a value that matched the pattern with
\* separator sep: float when the text holds a point, int otherwise; a failed
\* conversion falls through (ok = FALSE).
NumberOf(t) ==
  LET AsFloat(f) == <<f[1], FloatV(f[2])>>
      AsInt(i) == <<i[1], IntV(i[2])>>
  IN IF Contains(t, ".") THEN AsFloat(PyFloat(t)) ELSE AsInt(PyInt(t))

detect_type(value) ==
  IF IsNone(value) \/ Strip(value.s) = <<>> THEN None
  ELSE IF Lower(value.s) \in TrueWords THEN BoolV(TRUE)
  ELSE IF Lower(value.s) \in FalseWords THEN BoolV(FALSE)
  ELSE LET FirstNumber(dot, com) ==
             IF dot[1] THEN dot[2]
             ELSE IF com[1] THEN com[2]
             ELSE value
       IN FirstNumber(IF ReMatchNumber(value.s, ".") THEN NumberOf(value.s)
                      ELSE <<FALSE, None>>,
                      IF ReMatchNumber(value.s, ",")
                      THEN NumberOf(ReplaceChar(value.s, ",", <<".">>))
                      ELSE <<FALSE, None>>)

\* ------------------------------------------------------------ detect_delimiter
\* t.split(sep) for a one-character sep: always at least one piece.
RECURSIVE Split(_, _)
Split(t, sep) ==
  LET k == IndexOf(t, sep)
  IN IF k = 0 THEN <<t>>
     ELSE <<SubSeq(t, 1, k - 1)>> \o Split(SubSeq(t, k + 1, Len(t)), sep)

\* sep.join(pieces)
RECURSIVE Join(_, _)
Join(pieces, sep) ==
  IF pieces = <<>> THEN <<>>
  ELSE IF Len(pieces) = 1 THEN pieces[1]
  ELSE pieces[1] \o sep \o Join(Tail(pieces), sep)

\* seq[:n]
Take(seq, n) == SubSeq(seq, 1, IF Len(seq) < n THEN Len(seq) ELSE n)

RECURSIVE Sum(_)
Sum(ns) == IF ns = <<>> THEN 0 ELSE Head(ns) + Sum(Tail(ns))

\* line.strip().startswith('#')
IsComment(line) == Strip(line) # <<>> /\ Head(Strip(line)) = "#"
IsBlank(line) == Strip(line) = <<>>

possible_delimiters == <<",", ";", "|", "\t">>
\* data_lines[:10]
MaxExamined == 10

\* The lines detect_delimiter scores: the non-blank lines, without the comment
\* lines unless every line is a comment.
DataLinesOf(sample_data) ==
  LET lines == SelectSeq(Split(sample_data, "\n"), LAMBDA l : ~IsBlank(l))
      data_lines == SelectSeq(lines, LAMBDA l : ~IsComment(l))
  IN IF data_lines = <<>> THEN lines ELSE data_lines

\* Counter.most_common(1) over the counts in the order they were added: the first
\* added count among the most frequent ones, as <<count, frequency>>.
MostCommon(counts) ==
  LET Freq(c) == Cardinality({i \in 1..Len(counts) : counts[i] = c})
      best == CHOOSE i \in 1..Len(counts) :
                /\ \A j \in 1..Len(counts) : Freq(counts[j]) <= Freq(counts[i])
                /\ \A j \in 1..(i - 1) : Freq(counts[j]) < Freq(counts[i])
  IN <<counts[best], Freq(counts[best])>>

\* A score is kept multiplied by n, the number of examined lines, so that the
\* factor (frequency / n) * 2 stays an integer.
BaseScore(examined, delimiter) ==
  LET n == Len(examined)
      balanced == SelectSeq(examined, LAMBDA l : Count(l, "\"") % 2 = 0)
      counts == [i \in 1..Len(balanced) |-> Count(balanced[i], delimiter)]
      total == Sum(counts)
  IN IF counts # <<>> /\ MostCommon(counts)[1] > 0
     THEN total * MostCommon(counts)[2] * 2
     ELSE total * n

TabPositions(line) == {i \in 1..Len(line) : line[i] = "\t"}

\* tab_pattern_score: tab positions shared with the first line that has tabs.
RECURSIVE TabPatternScore(_, _)
TabPatternScore(examined, tab_positions) ==
  IF examined = <<>> THEN 0
  ELSE LET line_positions == TabPositions(Head(examined))
       IN IF line_positions = {} THEN TabPatternScore(Tail(examined), tab_positions)
          ELSE IF tab_positions = {} THEN TabPatternScore(Tail(examined), line_positions)
          ELSE Cardinality(tab_positions \cap line_positions)
                 + TabPatternScore(Tail(examined), tab_positions)

TabScore(sample_data, examined) ==
  LET n == Len(examined)
      base == BaseScore(examined, "\t")
      tab_pattern_score == TabPatternScore(examined, {})
      bonus == IF tab_pattern_score > 0 THEN base + tab_pattern_score * 2 * n ELSE base
      spaces_count == Sum([i \in 1..n |-> Count(examined[i], " ")])
      tabs_count == Sum([i \in 1..n |-> Count(examined[i], "\t")])
  IN IF ~Contains(sample_data, "\t") THEN base
     ELSE IF tabs_count > 0 /\ spaces_count > 5 * tabs_count THEN bonus * 2
     ELSE bonus

\* scores[delimiter], times the number of examined lines
FinalScore(sample_data, delimiter) ==
  LET examined == Take(DataLinesOf(sample_data), MaxExamined)
  IN IF delimiter = "\t" THEN TabScore(sample_data, examined)
     ELSE BaseScore(examined, delimiter)

\* MaxByScore with the later candidate winning a tie.
RECURSIVE MaxByScore_LastWins(_, _, _)
MaxByScore_LastWins(sample_data, i, best) ==
  IF i > Len(possible_delimiters) THEN best
  ELSE MaxByScore_LastWins(sample_data, i + 1,
         IF FinalScore(sample_data, possible_delimiters[i]) >= FinalScore(sample_data, best)
         THEN possible_delimiters[i] ELSE best)

\* max(scores, key=scores.get) over the candidates i..4, best being the best so far:
\* a later candidate replaces it only with a strictly higher score.
RECURSIVE MaxByScore(_, _, _)
MaxByScore(sample_data, i, best) ==
  IF i > Len(possible_delimiters) THEN best
  ELSE MaxByScore(sample_data, i + 1,
         IF FinalScore(sample_data, possible_delimiters[i]) > FinalScore(sample_data, best)
         THEN possible_delimiters[i] ELSE best)

\* detect_delimiter defaulting to comma as soon as any one score is zero.
detect_delimiter_AnyZero(sample_data) ==
  IF sample_data = <<>> THEN ","
  ELSE IF SelectSeq(Split(sample_data, "\n"), LAMBDA l : ~IsBlank(l)) = <<>> THEN ","
  ELSE IF \E i \in 1..Len(possible_delimiters) :
            FinalScore(sample_data, possible_delimiters[i]) = 0 THEN ","
  ELSE MaxByScore(sample_data, 2, possible_delimiters[1])

detect_delimiter(sample_data) ==
  IF sample_data = <<>> THEN ","
  ELSE IF SelectSeq(Split(sample_data, "\n"), LAMBDA l : ~IsBlank(l)) = <<>> THEN ","
  ELSE IF \A i \in 1..Len(possible_delimiters) :
            FinalScore(sample_data, possible_delimiters[i]) = 0 THEN ","
  ELSE MaxByScore(sample_data, 2, possible_delimiters[1])

\* ---------------------------------------------------------------- dictionaries
\* A dict is the sequence of its items [k, v] in insertion order.
Keys(d) == [i \in 1..Len(d) |-> d[i].k]
HasKey(d, key) == \E i \in 1..Len(d) : d[i].k = key
Get(d, key) == d[CHOOSE i \in 1..Len(d) : d[i].k = key].v
\* d[key] = v
Put(d, key, v) ==
  IF HasKey(d, key) THEN [i \in 1..Len(d) |-> IF d[i].k = key THEN [k |-> key, v |-> v] ELSE d[i]]
  ELSE Append(d, [k |-> key, v |-> v])

\* ---------------------------------------------------------- infer_column_types
\* The tag infer_column_types counts a value under: bool before int.
CountedAs(v) ==
  CASE IsNone(v) -> "null" [] IsBool(v) -> "bool" [] v.tag = "int" -> "int"
    [] IsFloat(v) -> "float" [] OTHER -> "string"

\* type_counts[key][tag]
TypeCount(rows, key, tag) ==
  Cardinality({i \in 1..Len(rows) : HasKey(rows[i], key) /\ CountedAs(Get(rows[i], key)) = tag})

\* The order of the counters of one column once 'null' is popped.
CountOrder == <<"int", "float", "bool", "string">>

\* max(counts.items(), key=lambda x: x[1])[0]: the first tag of the highest count.
MostCommonType(rows, key) ==
  LET best == CHOOSE i \in 1..Len(CountOrder) :
                /\ \A j \in 1..Len(CountOrder) :
                     TypeCount(rows, key, CountOrder[j]) <= TypeCount(rows, key, CountOrder[i])
                /\ \A j \in 1..(i - 1) :
                     TypeCount(rows, key, CountOrder[j]) < TypeCount(rows, key, CountOrder[i])
  IN CountOrder[best]

\* A faulty ColumnType without the special case of the numeric columns.
ColumnType_NoPromotion(rows, key) ==
  LET total == Sum([i \in 1..Len(CountOrder) |-> TypeCount(rows, key, CountOrder[i])])
  IN IF total > 0 THEN MostCommonType(rows, key) ELSE "string"

ColumnType(rows, key) ==
  LET total == Sum([i \in 1..Len(CountOrder) |-> TypeCount(rows, key, CountOrder[i])])
      most_common_type == MostCommonType(rows, key)
  IN IF total > 0
     THEN IF /\ most_common_type \in {"int", "float"}
             /\ TypeCount(rows, key, "int") + TypeCount(rows, key, "float") = total
             /\ TypeCount(rows, key, "float") > 0
          THEN "float"
          ELSE most_common_type
     ELSE "string"

\* A faulty infer_column_types that takes its keys from the last row.
infer_column_types_LastRow(rows) ==
  IF rows = <<>> THEN <<>>
  ELSE [i \in 1..Len(rows[Len(rows)]) |->
          [k |-> rows[Len(rows)][i].k, v |-> ColumnType(rows, rows[Len(rows)][i].k)]]

\* infer_column_types(rows): a dict from the keys of the first row to a type name.
infer_column_types(rows) ==
  IF rows = <<>> THEN <<>>
  ELSE [i \in 1..Len(rows[1]) |-> [k |-> rows[1][i].k, v |-> ColumnType(rows, rows[1][i].k)]]

\* -------------------------------------------------------- apply_transformations
\* t.startswith(p)
StartsWith(t, p) == Len(p) <= Len(t) /\ SubSeq(t, 1, Len(p)) = p

\* t.replace(old, new)
RECURSIVE Replace(_, _, _)
Replace(t, old, new) ==
  IF old = <<>>
  THEN IF t = <<>> THEN new ELSE new \o <<Head(t)>> \o Replace(Tail(t), old, new)
  ELSE IF t = <<>> THEN <<>>
  ELSE IF StartsWith(t, old) THEN new \o Replace(SubSeq(t, Len(old) + 1, Len(t)), old, new)
  ELSE <<Head(t)>> \o Replace(Tail(t), old, new)

\* t.capitalize()
Capitalize(t) == [i \in 1..Len(t) |-> IF i = 1 THEN UpperChar(t[i]) ELSE LowerChar(t[i])]

\* t.title(): a letter after a non-letter is upper-cased, the others lower-cased
Title(t) ==
  [i \in 1..Len(t) |->
     IF i = 1 \/ ~IsAlpha(t[i - 1]) THEN UpperChar(t[i]) ELSE LowerChar(t[i])]

\* One transformation (name, params) on a value: only text is changed, and an
\* unknown name changes nothing.
ApplyOne(result, spec) ==
  IF ~IsStr(result) THEN result
  ELSE CASE spec.name = <<"u", "p", "p", "e", "r">> -> StrV(Upper(result.s))
         [] spec.name = <<"l", "o", "w", "e", "r">> -> StrV(Lower(result.s))
         [] spec.name = <<"t", "r", "i", "m">> -> StrV(Strip(result.s))
         [] spec.name = <<"c", "a", "p", "i", "t", "a", "l", "i", "z", "e">> ->
              StrV(Capitalize(result.s))
         [] spec.name = <<"t", "i", "t", "l", "e">> -> StrV(Title(result.s))
         [] spec.name = <<"r", "e", "p", "l", "a", "c", "e">> /\ spec.params # <<>> ->
              StrV(Replace(result.s, spec.params[1], spec.params[2]))
         [] OTHER -> result

RECURSIVE apply_transformations(_, _)
apply_transformations(value, transformations) ==
  IF IsNone(value) \/ transformations = <<>> THEN value
  ELSE apply_transformations(ApplyOne(value, Head(transformations)), Tail(transformations))

\* -------------------------------------------------------------- parse_transforms
\* type_map.get(type_name, 'string') for the first part of the specs.
TypeNameOf(part) ==
  LET type_name == Lower(Strip(part))
  IN CASE type_name \in {<<"s", "t", "r", "i", "n", "g">>, <<"s", "t", "r">>, <<"t", "e", "x", "t">>} -> "string"
       [] type_name \in {<<"n", "u", "m", "b", "e", "r">>, <<"n", "u", "m">>, <<"f", "l", "o", "a", "t">>} -> "float"
       [] type_name \in {<<"i", "n", "t", "e", "g", "e", "r">>, <<"i", "n", "t">>} -> "int"
       [] type_name \in {<<"b", "o", "o", "l", "e", "a", "n">>, <<"b", "o", "o", "l">>} -> "bool"
       [] OTHER -> "string"

\* A faulty Transformations that keeps the names as they are written.
RECURSIVE Transformations_NoLower(_)
Transformations_NoLower(parts) ==
  IF parts = <<>> THEN <<>>
  ELSE LET t == Head(parts)
           replace_spec == SubSeq(t, IndexOf(t, ":") + 1, Len(t))
           k == IndexOf(replace_spec, "=")
       IN IF Strip(t) = <<>> THEN Transformations_NoLower(Tail(parts))
          ELSE IF StartsWith(t, <<"r", "e", "p", "l", "a", "c", "e", ":">>)
          THEN IF k = 0 THEN Transformations_NoLower(Tail(parts))
               ELSE <<[name |-> <<"r", "e", "p", "l", "a", "c", "e">>,
                       params |-> <<SubSeq(replace_spec, 1, k - 1),
                                    SubSeq(replace_spec, k + 1, Len(replace_spec))>>]>>
                      \o Transformations_NoLower(Tail(parts))
          ELSE <<[name |-> Strip(t), params |-> <<>>]>> \o Transformations_NoLower(Tail(parts))

\* Lines 341-354: the transformations of the parts after the type; params is <<>>
\* for None.
RECURSIVE Transformations(_)
Transformations(parts) ==
  IF parts = <<>> THEN <<>>
  ELSE LET t == Head(parts)
           replace_spec == SubSeq(t, IndexOf(t, ":") + 1, Len(t))
           k == IndexOf(replace_spec, "=")
       IN IF Strip(t) = <<>> THEN Transformations(Tail(parts))
          ELSE IF StartsWith(t, <<"r", "e", "p", "l", "a", "c", "e", ":">>)
          THEN IF k = 0 THEN Transformations(Tail(parts))
               ELSE <<[name |-> <<"r", "e", "p", "l", "a", "c", "e">>,
                       params |-> <<SubSeq(replace_spec, 1, k - 1),
                                    SubSeq(replace_spec, k + 1, Len(replace_spec))>>]>>
                      \o Transformations(Tail(parts))
          ELSE <<[name |-> Lower(Strip(t)), params |-> <<>>]>> \o Transformations(Tail(parts))

\* Lines 310-360 over the items of the directive.
RECURSIVE ParseItems(_, _)
ParseItems(items, transforms) ==
  IF items = <<>> THEN transforms
  ELSE LET item == Head(items)
           column == Strip(SubSeq(item, 1, IndexOf(item, ":") - 1))
           specs_parts == Split(SubSeq(item, IndexOf(item, ":") + 1, Len(item)), "/")
       IN IF ~Contains(item, ":") \/ column = <<>> THEN ParseItems(Tail(items), transforms)
          ELSE ParseItems(Tail(items),
                 Put(transforms, column,
                     [type |-> TypeNameOf(specs_parts[1]),
                      transformations |-> Transformations(Tail(specs_parts))]))

parse_transforms(arg) == IF arg = <<>> THEN <<>> ELSE ParseItems(Split(arg, ","), <<>>)

\* ---------------------------------------------------------- convert_data_types
\* Coerce taking a bool for something other than an int under the type int
\* (type(value) is not int), so that float(value) converts it.
Coerce_BoolNotInt(value, type_name) ==
  CASE type_name = "int" /\ value.tag # "int" ->
         IF IsStr(value)
         THEN LET Whole(f) ==
                    IF ~f[1] THEN value
                    ELSE IF f[2] % FloatScale = 0 THEN IntV(f[2] \div FloatScale)
                    ELSE FloatV(f[2])
              IN Whole(PyFloat(value.s))
         ELSE IF IsFloat(value)
         THEN IF value.n % FloatScale = 0 THEN IntV(value.n \div FloatScale) ELSE value
         ELSE IF IsBool(value) THEN FloatV(value.n * FloatScale)
         ELSE value
    [] type_name = "float" /\ ~IsFloat(value) ->
         IF IsStr(value)
         THEN LET Parsed(f) == IF f[1] THEN FloatV(f[2]) ELSE value
              IN Parsed(PyFloat(value.s))
         ELSE IF IsInstInt(value) THEN FloatV(value.n * FloatScale)
         ELSE value
    [] type_name = "bool" /\ ~IsBool(value) ->
         IF IsStr(value) /\ Lower(value.s) \in TrueWords THEN BoolV(TRUE)
         ELSE IF IsStr(value) /\ Lower(value.s) \in FalseWords THEN BoolV(FALSE)
         ELSE value
    [] OTHER -> value

\* Line 484: float(value) raises OverflowError for an int beyond the floats, and
\* the except clause at line 485 names ValueError and TypeError only.  Under the
\* type int (line 480) float() is given text and floats only, which it turns into
\* inf at worst.
CoerceRaises(value, type_name) ==
  /\ type_name = "float"
  /\ IsInstInt(value)
  /\ value.n >= FloatLimit \/ -value.n >= FloatLimit

\* A faulty Coerce that leaves text with a fractional part as it is under the
\* type int.
Coerce_FractionKept(value, type_name) ==
  CASE type_name = "int" /\ ~IsInstInt(value) ->
         IF IsStr(value)
         THEN LET Whole(f) ==
                    IF ~f[1] THEN value
                    ELSE IF f[2] % FloatScale = 0 THEN IntV(f[2] \div FloatScale)
                    ELSE value
              IN Whole(PyFloat(value.s))
         ELSE IF IsFloat(value)
         THEN IF value.n % FloatScale = 0 THEN IntV(value.n \div FloatScale) ELSE value
         ELSE value
    [] type_name = "float" /\ ~IsFloat(value) ->
         IF IsStr(value)
         THEN LET Parsed(f) == IF f[1] THEN FloatV(f[2]) ELSE value
              IN Parsed(PyFloat(value.s))
         ELSE IF IsInstInt(value) THEN FloatV(value.n * FloatScale)
         ELSE value
    [] type_name = "bool" /\ ~IsBool(value) ->
         IF IsStr(value) /\ Lower(value.s) \in TrueWords THEN BoolV(TRUE)
         ELSE IF IsStr(value) /\ Lower(value.s) \in FalseWords THEN BoolV(FALSE)
         ELSE value
    [] OTHER -> value

\* The coercion of one value toward a column type (lines 476-491); a conversion
\* that raises ValueError or TypeError leaves the value as it is.
Coerce(value, type_name) ==
  CASE type_name = "int" /\ ~IsInstInt(value) ->
         IF IsStr(value)
         THEN LET Whole(f) ==
                    IF ~f[1] THEN value
                    ELSE IF f[2] % FloatScale = 0 THEN IntV(f[2] \div FloatScale)
                    ELSE FloatV(f[2])
              IN Whole(PyFloat(value.s))
         ELSE IF IsFloat(value)
         THEN IF value.n % FloatScale = 0 THEN IntV(value.n \div FloatScale) ELSE value
         ELSE value
    [] type_name = "float" /\ ~IsFloat(value) ->
         IF IsStr(value)
         THEN LET Parsed(f) == IF f[1] THEN FloatV(f[2]) ELSE value
              IN Parsed(PyFloat(value.s))
         ELSE IF IsInstInt(value) THEN FloatV(value.n * FloatScale)
         ELSE value
    [] type_name = "bool" /\ ~IsBool(value) ->
         IF IsStr(value) /\ Lower(value.s) \in TrueWords THEN BoolV(TRUE)
         ELSE IF IsStr(value) /\ Lower(value.s) \in FalseWords THEN BoolV(FALSE)
         ELSE value
    [] OTHER -> value

\* First pass (lines 427-438): detect the type of every text value of a column
\* that has no transform spec; skipped altogether when type hints are given.
DetectPass(rows, type_hints, transforms) ==
  IF type_hints # <<>> THEN rows
  ELSE [r \in 1..Len(rows) |->
          [i \in 1..Len(rows[r]) |->
             IF HasKey(transforms, rows[r][i].k) \/ ~IsStr(rows[r][i].v) THEN rows[r][i]
             ELSE [k |-> rows[r][i].k, v |-> detect_type(rows[r][i].v)]]]

\* column_types (lines 441-453): the hints, overridden by the transform specs'
\* types; inferred only when neither gives any type.
RECURSIVE UpdateTypes(_, _)
UpdateTypes(column_types, transforms) ==
  IF transforms = <<>> THEN column_types
  ELSE UpdateTypes(Put(column_types, Head(transforms).k, Head(transforms).v.type),
                   Tail(transforms))

ColumnTypes(detected_rows, type_hints, transforms) ==
  LET declared == UpdateTypes(type_hints, transforms)
  IN IF declared = <<>> THEN infer_column_types(detected_rows) ELSE declared

\* ConvertValue coercing before the transforms run.
ConvertValue_CoerceFirst(key, value, column_types, transforms) ==
  IF IsNone(value) THEN value
  ELSE LET coerced == IF HasKey(column_types, key) THEN Coerce(value, Get(column_types, key))
                      ELSE value
       IN IF HasKey(transforms, key)
          THEN apply_transformations(coerced, Get(transforms, key).transformations)
          ELSE coerced

\* One value of the second pass (lines 460-491): None is skipped; the transforms
\* of the column first, the coercion toward the column type after them.
ConvertValue(key, value, column_types, transforms) ==
  IF IsNone(value) THEN value
  ELSE LET transformed == IF HasKey(transforms, key)
                          THEN apply_transformations(value, Get(transforms, key).transformations)
                          ELSE value
       IN IF HasKey(column_types, key) THEN Coerce(transformed, Get(column_types, key))
          ELSE transformed

\* Whether the second pass raises: some value that is not None has, once the
\* transforms of its column were applied, a coercion that raises.
convert_data_types_raises(rows, type_hints, transforms) ==
  LET ValueRaises(item, column_types) ==
        /\ ~IsNone(item.v)
        /\ HasKey(column_types, item.k)
        /\ CoerceRaises(IF HasKey(transforms, item.k)
                        THEN apply_transformations(item.v, Get(transforms, item.k).transformations)
                        ELSE item.v,
                        Get(column_types, item.k))
      SecondPass(detected_rows, column_types) ==
        \E r \in 1..Len(detected_rows) : \E i \in 1..Len(detected_rows[r]) :
          ValueRaises(detected_rows[r][i], column_types)
      FirstPass(detected_rows) ==
        SecondPass(detected_rows, ColumnTypes(detected_rows, type_hints, transforms))
  IN FirstPass(DetectPass(rows, type_hints, transforms))

\* What convert_data_types returns when it does not raise.
convert_data_types(rows, type_hints, transforms) ==
  LET SecondPass(detected_rows, column_types) ==
        [r \in 1..Len(detected_rows) |->
           [i \in 1..Len(detected_rows[r]) |->
              [k |-> detected_rows[r][i].k,
               v |-> ConvertValue(detected_rows[r][i].k, detected_rows[r][i].v,
                                  column_types, transforms)]]]
      FirstPass(detected_rows) ==
        SecondPass(detected_rows, ColumnTypes(detected_rows, type_hints, transforms))
  IN FirstPass(DetectPass(rows, type_hints, transforms))

\* -------------------------------------------------------------------- save_json
\* The number a bool, int or float stands for, times FloatScale.
NumberValue(v) == IF IsFloat(v) THEN v.n ELSE v.n * FloatScale

\* a == b for dictionary keys: True == 1 == 1.0, text equals only the same text.
KeyEq(a, b) ==
  IF IsStr(a) \/ IsStr(b) \/ IsNone(a) \/ IsNone(b) THEN a = b
  ELSE NumberValue(a) = NumberValue(b)

\* A faulty store that keeps the record already held under an equal key
\* (dict.setdefault in place of the assignment).
PutItem_KeepFirst(data_dict, key, item) ==
  IF \E i \in 1..Len(data_dict) : KeyEq(data_dict[i].k, key)
  THEN data_dict
  ELSE Append(data_dict, [k |-> key, v |-> item])

\* A faulty store that adds an entry for every record, equal key or not.
PutItem_AppendAlways(data_dict, key, item) == Append(data_dict, [k |-> key, v |-> item])

\* data_dict[key] = item: an equal key keeps its place and its first spelling.
PutItem(data_dict, key, item) ==
  IF \E i \in 1..Len(data_dict) : KeyEq(data_dict[i].k, key)
  THEN [i \in 1..Len(data_dict) |->
          IF KeyEq(data_dict[i].k, key) THEN [k |-> data_dict[i].k, v |-> item]
          ELSE data_dict[i]]
  ELSE Append(data_dict, [k |-> key, v |-> item])

\* The loop of lines 789-791 over data[i..].
RECURSIVE IndexById(_, _, _, _)
IndexById(data, id_field, i, data_dict) ==
  IF i > Len(data) THEN data_dict
  ELSE IndexById(data, id_field, i + 1,
         IF HasKey(data[i], id_field) THEN PutItem(data_dict, Get(data[i], id_field), data[i])
         ELSE data_dict)

\* What save_json hands to json.dump: the mapping built from a non-empty list
\* whose first element is a dict, when an id field is given and the mapping is
\* not empty; the data itself otherwise.
save_json(data, id_field) ==
  IF id_field # <<>> /\ data.rows # <<>> /\ data.keyed
       /\ IndexById(data.rows, id_field, 1, <<>>) # <<>>
  THEN [mapping |-> TRUE, items |-> IndexById(data.rows, id_field, 1, <<>>), rows |-> <<>>]
  ELSE [mapping |-> FALSE, items |-> <<>>, rows |-> data.rows]

\* -------------------------------------------------------------------- json.dump
\* The printable ASCII characters but the grave accent, in the order of their
\* codes (32 to 95 and 97 to 126): str < str compares texts by the codes of their
\* characters.
CharCode(c) ==
  LET upto_underscore ==
        <<" ", "!", "\"", "#", "$", "%", "&", "'", "(", ")", "*", "+", ",", "-", ".", "/",
          "0", "1", "2", "3", "4", "5", "6", "7", "8", "9", ":", ";", "<", "=", ">", "?",
          "@", "A", "B", "C", "D", "E", "F", "G", "H", "I", "J", "K", "L", "M", "N", "O",
          "P", "Q", "R", "S", "T", "U", "V", "W", "X", "Y", "Z", "[", "\\", "]", "^", "_">>
      from_a ==
        <<"a", "b", "c", "d", "e", "f", "g", "h", "i", "j", "k", "l", "m", "n", "o", "p",
          "q", "r", "s", "t", "u", "v", "w", "x", "y", "z", "{", "|", "}", "~">>
  IN IF \E i \in 1..Len(from_a) : from_a[i] = c
     THEN 96 + CHOOSE i \in 1..Len(from_a) : from_a[i] = c
     ELSE 31 + CHOOSE i \in 1..Len(upto_underscore) : upto_underscore[i] = c

\* a < b for two texts
RECURSIVE TextLess(_, _)
TextLess(a, b) ==
  IF b = <<>> THEN FALSE
  ELSE IF a = <<>> THEN TRUE
  ELSE IF Head(a) = Head(b) THEN TextLess(Tail(a), Tail(b))
  ELSE CharCode(Head(a)) < CharCode(Head(b))

\* a < b raises TypeError unless both are text or both are numbers (bool, int, float).
Comparable(a, b) ==
  (IsStr(a) /\ IsStr(b)) \/ (~IsStr(a) /\ ~IsNone(a) /\ ~IsStr(b) /\ ~IsNone(b))
KeyLess(a, b) == IF IsStr(a) THEN TextLess(a.s, b.s) ELSE NumberValue(a) < NumberValue(b)

\* sorted(dct.items()) of a dict whose keys are comparable, less[j][i] telling
\* whether the key of item j is smaller than the key of item i: item p of the
\* result is the one with p - 1 smaller keys.
SortedItems(items, less) ==
  LET Rank(i) == 1 + Cardinality({j \in 1..Len(items) : less[j][i]})
  IN [p \in 1..Len(items) |-> items[CHOOSE i \in 1..Len(items) : Rank(i) = p]]

\* The text json.dump has written when it returns or raises, as the bracket it
\* opened, the entries it wrote and whether it wrote the closing bracket (the keys
\* and values are kept as values, their JSON spelling is not modelled).  With
\* sort_keys the items of every dict are sorted before its first item is written,
\* after its opening bracket: sorting the keys of a dict raises TypeError when two
\* of them cannot be compared, and the keys of a record are all text.
json_dump(data, keyed, sort) ==
  LET Record(row) ==
        IF sort /\ keyed
        THEN SortedItems(row, [j \in 1..Len(row) |->
                                 [i \in 1..Len(row) |-> TextLess(row[j].k, row[i].k)]])
        ELSE row
      Records(rows) == [r \in 1..Len(rows) |-> Record(rows[r])]
      Values(items) == [i \in 1..Len(items) |-> [k |-> items[i].k, v |-> Record(items[i].v)]]
      raises == /\ data.mapping /\ sort
                /\ \E i, j \in 1..Len(data.items) :
                     i # j /\ ~Comparable(data.items[i].k, data.items[j].k)
  IN [opened |-> IF data.mapping THEN "{" ELSE "[",
      items |-> IF raises THEN <<>>
                ELSE IF sort
                THEN SortedItems(Values(data.items),
                       [j \in 1..Len(data.items) |->
                          [i \in 1..Len(data.items) |->
                             KeyLess(data.items[j].k, data.items[i].k)]])
                ELSE Values(data.items),
      rows |-> Records(data.rows),
      closed |-> ~raises]

\* ------------------------------------------------------------------ csv.reader
\* quotechar='"', the default of load_csv (line 496); no call of the model passes
\* another one.
quotechar == "\""

\* The reader at the start of a record: its state, the field being collected and
\* the fields of the record so far.
ReaderStart == [state |-> "START_RECORD", field |-> <<>>, fields |-> <<>>]
SaveField(p, next_state) ==
  [state |-> next_state, field |-> <<>>, fields |-> Append(p.fields, p.field)]
AddChar(p, c, next_state) == [p EXCEPT !.field = Append(p.field, c), !.state = next_state]

\* One step of csv.reader (doublequote, not strict, no escapechar) on the
\* character c, "EOL" standing for the end of the line handed to the reader.
\* Lines hold no line break but their last character, so that in EAT_CRNL only a
\* line break or the end of the line can follow.
ProcessChar(p, c, delimiter) ==
  LET ends == c \in {"\n", "\r", "EOL"}
      after == IF c = "EOL" THEN "START_RECORD" ELSE "EAT_CRNL"
      StartField ==
        IF ends THEN SaveField(p, after)
        ELSE IF c = quotechar THEN [p EXCEPT !.state = "IN_QUOTED_FIELD"]
        ELSE IF c = delimiter THEN SaveField(p, "START_FIELD")
        ELSE AddChar(p, c, "IN_FIELD")
  IN CASE p.state = "START_RECORD" ->
            IF c = "EOL" THEN p
            ELSE IF ends THEN [p EXCEPT !.state = "EAT_CRNL"]
            ELSE StartField
       [] p.state = "START_FIELD" -> StartField
       [] p.state = "IN_FIELD" ->
            IF ends THEN SaveField(p, after)
            ELSE IF c = delimiter THEN SaveField(p, "START_FIELD")
            ELSE AddChar(p, c, "IN_FIELD")
       [] p.state = "IN_QUOTED_FIELD" ->
            IF c = "EOL" THEN p
            ELSE IF c = quotechar THEN [p EXCEPT !.state = "QUOTE_IN_QUOTED_FIELD"]
            ELSE AddChar(p, c, "IN_QUOTED_FIELD")
       [] p.state = "QUOTE_IN_QUOTED_FIELD" ->
            IF c = quotechar THEN AddChar(p, c, "IN_QUOTED_FIELD")
            ELSE IF c = delimiter THEN SaveField(p, "START_FIELD")
            ELSE IF ends THEN SaveField(p, after)
            ELSE AddChar(p, c, "IN_FIELD")
       [] p.state = "EAT_CRNL" ->
            IF c = "EOL" THEN [p EXCEPT !.state = "START_RECORD"] ELSE p

RECURSIVE ProcessLine(_, _, _)
ProcessLine(p, chars, delimiter) ==
  IF chars = <<>> THEN p
  ELSE ProcessLine(ProcessChar(p, Head(chars), delimiter), Tail(chars), delimiter)

\* The rows csv.reader yields from lines[i..], p being the reader's state and rows
\* the rows yielded so far: a record ends with the line that leaves the reader in
\* START_RECORD, so that a quoted field left open runs on into the next lines, and
\* the end of the input closes the record that is still open.
RECURSIVE csv_reader(_, _, _, _, _)
csv_reader(lines, i, p, rows, delimiter) ==
  IF i > Len(lines)
  THEN IF p.field # <<>> \/ p.state = "IN_QUOTED_FIELD"
       THEN Append(rows, SaveField(p, "START_RECORD").fields)
       ELSE rows
  ELSE LET q == ProcessLine(p, lines[i] \o <<"\n", "EOL">>, delimiter)
       IN IF q.state = "START_RECORD"
          THEN csv_reader(lines, i + 1, ReaderStart, Append(rows, q.fields), delimiter)
          ELSE csv_reader(lines, i + 1, q, rows, delimiter)

\* csv.reader and csv.DictReader accept a delimiter of one character only; with
\* any other they raise TypeError when they are constructed.
ValidDelimiter(delimiter) == Len(delimiter) = 1

\* --------------------------------------------------------------------- re.split
\* re.split(r'\t+', t): the pieces between the runs of tabs.
RECURSIVE ReSplitTabs(_)
ReSplitTabs(t) ==
  LET k == IndexOf(t, "\t")
  IN IF k = 0 THEN <<t>>
     ELSE <<SubSeq(t, 1, k - 1)>> \o ReSplitTabs(LStrip(SubSeq(t, k + 1, Len(t)), {"\t"}))

\* Index of the first occurrence of the text sep in t, 0 when there is none.
Find(t, sep) ==
  IF \E i \in 1..Len(t) : StartsWith(SubSeq(t, i, Len(t)), sep)
  THEN CHOOSE i \in 1..Len(t) :
         /\ StartsWith(SubSeq(t, i, Len(t)), sep)
         /\ \A j \in 1..(i - 1) : ~StartsWith(SubSeq(t, j, Len(t)), sep)
  ELSE 0

\* t.split(sep) for a text sep that is not empty.
RECURSIVE SplitOn(_, _)
SplitOn(t, sep) ==
  LET k == Find(t, sep)
  IN IF k = 0 THEN <<t>>
     ELSE <<SubSeq(t, 1, k - 1)>> \o SplitOn(SubSeq(t, k + Len(sep), Len(t)), sep)

\* seq[n:]
Drop(seq, n) == SubSeq(seq, n + 1, Len(seq))

\* ---------------------------------------------------------- the diagnostic stream
AutoDetected == "Auto-detected delimiter"
HeaderCountWarning == "Warning: Number of custom headers does not match number of CSV columns"
CountingError == "Warning: Error counting columns"
ParsingError == "Error parsing CSV"

\* --------------------------------------------------------- validate_header_count
\* The lines validate_header_count reads from the position pos: the comment and
\* blank lines and the first line that is neither, when there is one.
SampleLinesAt(lines, pos) ==
  LET rest == Drop(lines, pos)
      stops == {i \in 1..Len(rest) : ~IsComment(rest[i]) /\ ~IsBlank(rest[i])}
  IN IF stops = {} THEN rest
     ELSE SubSeq(rest, 1, CHOOSE i \in stops : \A j \in stops : i <= j)

\* A faulty validate_header_count that leaves the read position after the lines
\* it read.
validate_header_position_NoSeek(lines, pos, custom_headers) ==
  IF custom_headers = <<>> THEN pos ELSE pos + Len(SampleLinesAt(lines, pos))

\* Lines 119-141: the read position validate_header_count leaves: without custom
\* headers it reads nothing; with them it reads the sample lines from start_pos
\* and seeks start_pos again.
validate_header_position(lines, pos, custom_headers) ==
  LET start_pos == pos
      read_to == pos + Len(SampleLinesAt(lines, pos))
      sought == start_pos
  IN IF custom_headers = <<>> THEN pos ELSE sought

\* What validate_header_count writes to the diagnostic stream.
validate_header_count(lines, pos, custom_headers, delimiter, ignore_mismatch) ==
  LET sample_lines == SampleLinesAt(lines, pos)
      sampled == sample_lines[Len(sample_lines)]
      column_count ==
        IF delimiter = <<"\t">>
        THEN Len(SelectSeq(ReSplitTabs(Strip(sampled)), LAMBDA f : Strip(f) # <<>>))
        ELSE Len(csv_reader(<<sampled>>, 1, ReaderStart, <<>>, delimiter[1])[1])
  IN IF custom_headers = <<>> \/ sample_lines = <<>> THEN <<>>
     ELSE IF delimiter # <<"\t">> /\ ~ValidDelimiter(delimiter) THEN <<CountingError>>
     ELSE IF column_count # Len(custom_headers) /\ ~ignore_mismatch THEN <<HeaderCountWarning>>
     ELSE <<>>

\* ------------------------------------------------------------- load_csv, skipping
\* Lines 535-543: the position after reading on from pos until n lines that are
\* no comments were read, or the input ended.
\* A faulty skip that counts the comment lines toward n as well.
RECURSIVE SkipRows_CountComments(_, _, _)
SkipRows_CountComments(lines, pos, n) ==
  IF n <= 0 \/ pos >= Len(lines) THEN pos
  ELSE SkipRows_CountComments(lines, pos + 1, n - 1)

RECURSIVE SkipRows(_, _, _)
SkipRows(lines, pos, n) ==
  IF n <= 0 \/ pos >= Len(lines) THEN pos
  ELSE SkipRows(lines, pos + 1, IF IsComment(lines[pos + 1]) THEN n ELSE n - 1)

\* Lines 546-551: the position of the first line at or after pos that is no comment.
RECURSIVE SkipComments(_, _)
SkipComments(lines, pos) ==
  IF pos < Len(lines) /\ IsComment(lines[pos + 1]) THEN SkipComments(lines, pos + 1) ELSE pos

\* A document: dicts when keyed, lists when not.
Document(keyed, rows) == [keyed |-> keyed, rows |-> rows]

\* ------------------------------------------------------- parse_tab_delimited_file
\* One data line as a dict (lines 659-671): field i under header i, every field
\* beyond the headers joined to the value of the last header.
\* A faulty TabRow that leaves the fields beyond the headers out.
RECURSIVE TabRow_DropOverflow(_, _, _, _)
TabRow_DropOverflow(fields, i, headers, row) ==
  IF i > Len(fields) \/ i > Len(headers) THEN row
  ELSE TabRow_DropOverflow(fields, i + 1, headers,
         Put(row, headers[i], IF Strip(fields[i]) # <<>> THEN StrV(fields[i]) ELSE None))

RECURSIVE TabRow(_, _, _, _)
TabRow(fields, i, headers, row) ==
  IF i > Len(fields) THEN row
  ELSE LET last_header == headers[Len(headers)]
           held == IF HasKey(row, last_header) THEN Get(row, last_header) ELSE None
       IN TabRow(fields, i + 1, headers,
            IF i <= Len(headers)
            THEN Put(row, headers[i], IF Strip(fields[i]) # <<>> THEN StrV(fields[i]) ELSE None)
            ELSE IF IsStr(held) /\ held.s # <<>>
            THEN Put(row, last_header, StrV(held.s \o <<" ">> \o fields[i]))
            ELSE Put(row, last_header, StrV(fields[i])))

parse_tab_delimited_file(lines, pos, custom_headers, missing_header, detect_types, transforms) ==
  LET stripped == [i \in 1..Len(lines) - pos |-> Strip(lines[pos + i])]
      all_lines == SelectSeq(stripped, LAMBDA l : l # <<>> /\ Head(l) # "#")
      from_file == custom_headers = <<>> /\ ~missing_header /\ all_lines # <<>>
      headers ==
        IF from_file
        THEN LET hs == SelectSeq(ReSplitTabs(all_lines[1]), LAMBDA h : Strip(h) # <<>>)
             IN [i \in 1..Len(hs) |-> Strip(hs[i])]
        ELSE custom_headers
      data_lines == IF from_file THEN Tail(all_lines) ELSE all_lines
      Fields(line, keep(_)) ==
        LET fs == SelectSeq(ReSplitTabs(line), keep)
        IN [i \in 1..Len(fs) |-> Strip(fs[i])]
      lists == SelectSeq([i \in 1..Len(data_lines) |->
                            Fields(data_lines[i], LAMBDA f : Strip(f) # <<>>)],
                         LAMBDA fs : fs # <<>>)
      dicts == SelectSeq([i \in 1..Len(data_lines) |->
                            TabRow(Fields(data_lines[i], LAMBDA f : f # <<>>), 1, headers, <<>>)],
                         LAMBDA row : \E j \in 1..Len(row) : ~IsNone(row[j].v))
  IN IF headers = <<>>
     THEN Document(FALSE, [i \in 1..Len(lists) |-> [j \in 1..Len(lists[i]) |-> StrV(lists[i][j])]])
     ELSE Document(TRUE, IF detect_types THEN convert_data_types(dicts, <<>>, transforms) ELSE dicts)

\* ------------------------------------------------------------ load_csv, primary
\* A faulty DictRow that leaves the headers beyond a short row out (no restval).
RECURSIVE DictRow_NoRestval(_, _, _, _)
DictRow_NoRestval(fieldnames, row, i, d) ==
  IF i > Len(fieldnames) \/ i > Len(row) THEN d
  ELSE DictRow_NoRestval(fieldnames, row, i + 1, Put(d, fieldnames[i], StrV(row[i])))

\* What csv.DictReader makes of one row: dict(zip(fieldnames, row)), the headers
\* beyond a short row set to None (restval).  The fields beyond the headers of a
\* long row go under the key None (restkey), which line 589 leaves out at once, so
\* that they are not kept here.
RECURSIVE DictRow(_, _, _, _)
DictRow(fieldnames, row, i, d) ==
  IF i > Len(fieldnames) THEN d
  ELSE DictRow(fieldnames, row, i + 1,
         Put(d, fieldnames[i], IF i <= Len(row) THEN StrV(row[i]) ELSE None))

\* The dicts csv.DictReader yields from the rows of the reader: the first row is
\* the header unless fieldnames are given, and empty rows are passed over.
DictReader(rows, fieldnames) ==
  LET names == IF fieldnames # <<>> THEN fieldnames
               ELSE IF rows = <<>> THEN <<>> ELSE rows[1]
      data == IF fieldnames # <<>> \/ rows = <<>> THEN rows ELSE Tail(rows)
      filled == SelectSeq(data, LAMBDA row : row # <<>>)
  IN [i \in 1..Len(filled) |-> DictRow(names, filled[i], 1, <<>>)]

\* Lines 587-593: the items under a key that is "null" in any case are left out;
\* the text "None", "null" or blank becomes None.
NullWords == {<<"N", "o", "n", "e">>, <<"n", "u", "l", "l">>}
CleanValue(value) ==
  IF IsStr(value) /\ (value.s \in NullWords \/ Strip(value.s) = <<>>) THEN None ELSE value
CleanRow(row_dct) ==
  LET kept == SelectSeq(row_dct, LAMBDA item : Lower(item.k) # <<"n", "u", "l", "l">>)
  IN [i \in 1..Len(kept) |-> [k |-> kept[i].k, v |-> CleanValue(kept[i].v)]]

\* A faulty AnyValue that is content with any item.
AnyValue_AnyItem(row) == row # <<>>

\* any(v is not None for v in row.values())
AnyValue(row) == \E i \in 1..Len(row) : ~IsNone(row[i].v)

\* Line 600: the rows without their None items.
RemoveEmpty(rows) ==
  [r \in 1..Len(rows) |-> SelectSeq(rows[r], LAMBDA item : ~IsNone(item.v))]

\* A faulty PrimaryParse that returns lists whenever the header is missing,
\* custom headers or not.
PrimaryParse_IgnoreCustomHeaders(lines, pos, delimiter, opts) ==
  LET rows == csv_reader(Drop(lines, pos), 1, ReaderStart, <<>>, delimiter[1])
      dicts == DictReader(rows, opts.custom_headers)
      cleaned == SelectSeq([i \in 1..Len(dicts) |-> CleanRow(dicts[i])], AnyValue)
      kept == IF opts.remove_empty THEN RemoveEmpty(cleaned) ELSE cleaned
  IN IF opts.missing_header
     THEN Document(FALSE,
            [i \in 1..Len(rows) |->
               [j \in 1..Len(rows[i]) |->
                  IF opts.detect_types THEN detect_type(StrV(rows[i][j])) ELSE StrV(rows[i][j])]])
     ELSE Document(TRUE,
            IF opts.detect_types THEN convert_data_types(kept, <<>>, opts.transforms) ELSE kept)

\* A faulty PrimaryParse that converts the rows whether or not type detection
\* is on.
PrimaryParse_AlwaysConverts(lines, pos, delimiter, opts) ==
  LET rows == csv_reader(Drop(lines, pos), 1, ReaderStart, <<>>, delimiter[1])
      dicts == DictReader(rows, opts.custom_headers)
      cleaned == SelectSeq([i \in 1..Len(dicts) |-> CleanRow(dicts[i])], AnyValue)
      kept == IF opts.remove_empty THEN RemoveEmpty(cleaned) ELSE cleaned
  IN IF opts.missing_header /\ opts.custom_headers = <<>>
     THEN Document(FALSE,
            [i \in 1..Len(rows) |->
               [j \in 1..Len(rows[i]) |->
                  IF opts.detect_types THEN detect_type(StrV(rows[i][j])) ELSE StrV(rows[i][j])]])
     ELSE Document(TRUE, convert_data_types(kept, <<>>, opts.transforms))

\* A faulty PrimaryParse that leaves every comment line out before it reads.
PrimaryParse_DropsComments(lines, pos, delimiter, opts) ==
  LET rows == csv_reader(SelectSeq(Drop(lines, pos), LAMBDA l : ~IsComment(l)),
                         1, ReaderStart, <<>>, delimiter[1])
      dicts == DictReader(rows, opts.custom_headers)
      cleaned == SelectSeq([i \in 1..Len(dicts) |-> CleanRow(dicts[i])], AnyValue)
      kept == IF opts.remove_empty THEN RemoveEmpty(cleaned) ELSE cleaned
  IN IF opts.missing_header /\ opts.custom_headers = <<>>
     THEN Document(FALSE,
            [i \in 1..Len(rows) |->
               [j \in 1..Len(rows[i]) |->
                  IF opts.detect_types THEN detect_type(StrV(rows[i][j])) ELSE StrV(rows[i][j])]])
     ELSE Document(TRUE,
            IF opts.detect_types THEN convert_data_types(kept, <<>>, opts.transforms) ELSE kept)

\* Lines 559-606, the path of every delimiter but the tab, from the position pos;
\* the delimiter is one the reader accepts.
PrimaryParse(lines, pos, delimiter, opts) ==
  LET rows == csv_reader(Drop(lines, pos), 1, ReaderStart, <<>>, delimiter[1])
      dicts == DictReader(rows, opts.custom_headers)
      cleaned == SelectSeq([i \in 1..Len(dicts) |-> CleanRow(dicts[i])], AnyValue)
      kept == IF opts.remove_empty THEN RemoveEmpty(cleaned) ELSE cleaned
  IN IF opts.missing_header /\ opts.custom_headers = <<>>
     THEN Document(FALSE,
            [i \in 1..Len(rows) |->
               [j \in 1..Len(rows[i]) |->
                  IF opts.detect_types THEN detect_type(StrV(rows[i][j])) ELSE StrV(rows[i][j])]])
     ELSE Document(TRUE,
            IF opts.detect_types THEN convert_data_types(kept, <<>>, opts.transforms) ELSE kept)

\* ----------------------------------------------------------- fallback_csv_parse
\* Lines 695-696: the position in the input of the first of the lines the
\* fallback goes on with, pos being the position it is called at.
FallbackLinesFrom(lines, pos, skip_first_row) ==
  IF skip_first_row > 0 /\ Len(lines) - pos > skip_first_row THEN pos + skip_first_row ELSE pos

\* Lines 709-722: the fields of a line, cut at the delimiters outside quotes; the
\* quote characters are left out and a last field that is empty is not added.
RECURSIVE ScanFields(_, _, _, _, _)
ScanFields(chars, in_quotes, current_field, fields, delimiter) ==
  IF chars = <<>>
  THEN IF current_field # <<>> THEN Append(fields, StripChars(current_field, {quotechar}))
       ELSE fields
  ELSE IF Head(chars) = quotechar
  THEN ScanFields(Tail(chars), ~in_quotes, current_field, fields, delimiter)
  ELSE IF <<Head(chars)>> = delimiter /\ ~in_quotes
  THEN ScanFields(Tail(chars), in_quotes, <<>>,
                  Append(fields, StripChars(current_field, {quotechar})), delimiter)
  ELSE ScanFields(Tail(chars), in_quotes, Append(current_field, Head(chars)), fields, delimiter)

\* A faulty JoinToFirst that joins the line to the last value that is not empty.
JoinToFirst_Last(current_row, line) ==
  LET full == {i \in 1..Len(current_row) :
                 IsStr(current_row[i].v) /\ current_row[i].v.s # <<>>}
      last == CHOOSE i \in full : \A j \in full : i >= j
  IN IF full = {} THEN current_row
     ELSE [current_row EXCEPT ![last].v = StrV(current_row[last].v.s \o <<" ">> \o line)]

\* Lines 753-756: the line joined to the first value of the row that is not empty.
JoinToFirst(current_row, line) ==
  LET full == {i \in 1..Len(current_row) :
                 IsStr(current_row[i].v) /\ current_row[i].v.s # <<>>}
      first == CHOOSE i \in full : \A j \in full : i <= j
  IN IF full = {} THEN current_row
     ELSE [current_row EXCEPT ![first].v = StrV(current_row[first].v.s \o <<" ">> \o line)]

\* Lines 763-772: the dict of a line split at the delimiter.
RECURSIVE SplitRow(_, _, _, _)
SplitRow(fields, i, headers, row) ==
  IF i > Len(fields) \/ i > Len(headers) THEN row
  ELSE LET field_value == StripChars(fields[i], {quotechar})
       IN SplitRow(fields, i + 1, headers,
            Put(row, headers[i], IF field_value = <<>> THEN None ELSE StrV(field_value)))

\* Lines 744-776 over lines[i..]: a line that does not begin with the quote
\* character is joined to the row before it.
RECURSIVE FallbackRows(_, _, _, _, _, _)
FallbackRows(lines, i, headers, current_row, result, delimiter) ==
  IF i > Len(lines) THEN (IF current_row # <<>> THEN Append(result, current_row) ELSE result)
  ELSE LET line == Strip(lines[i])
       IN IF line = <<>> THEN FallbackRows(lines, i + 1, headers, current_row, result, delimiter)
          ELSE IF StartsWith(line, delimiter)
                    \/ (Head(line) # quotechar /\ <<Head(line)>> # delimiter)
          THEN FallbackRows(lines, i + 1, headers,
                 IF current_row # <<>> THEN JoinToFirst(current_row, line) ELSE current_row,
                 result, delimiter)
          ELSE FallbackRows(lines, i + 1, headers,
                 SplitRow(SplitOn(line, delimiter), 1, headers, <<>>),
                 IF current_row # <<>> THEN Append(result, current_row) ELSE result,
                 delimiter)

\* fallback_csv_parse from the position pos; the delimiter is not empty.
fallback_csv_parse(lines, pos, delimiter, opts) ==
  LET rest == Drop(lines, FallbackLinesFrom(lines, pos, opts.skip_first_row))
      data == SelectSeq(rest, LAMBDA l : ~IsBlank(l) /\ ~IsComment(l))
      lists == [i \in 1..Len(data) |-> ScanFields(Strip(data[i]), FALSE, <<>>, <<>>, delimiter)]
      headers == IF opts.custom_headers # <<>> THEN opts.custom_headers
                 ELSE SplitOn(Strip(data[1]), delimiter)
      result == FallbackRows(IF opts.custom_headers # <<>> THEN data ELSE Tail(data),
                             1, headers, <<>>, <<>>, delimiter)
  IN IF delimiter = <<"\t">>
     THEN parse_tab_delimited_file(lines, pos, opts.custom_headers, opts.missing_header,
                                   opts.detect_types, opts.transforms)
     ELSE IF opts.missing_header /\ opts.custom_headers = <<>> /\ data # <<>>
     THEN Document(FALSE,
            [i \in 1..Len(lists) |->
               [j \in 1..Len(lists[i]) |->
                  IF opts.detect_types THEN detect_type(StrV(lists[i][j])) ELSE StrV(lists[i][j])]])
     ELSE IF opts.custom_headers = <<>> /\ (data = <<>> \/ opts.missing_header)
     THEN Document(~opts.missing_header, <<>>)
     ELSE Document(TRUE,
            IF opts.detect_types THEN convert_data_types(result, <<>>, opts.transforms)
            ELSE result)

\* ---------------------------------------------------------------------- load_csv
\* read(4096): the most characters of the sample read for the detection.
SampleSize == 4096

\* The text of the lines from the position pos on.
RECURSIVE TextFrom(_, _)
TextFrom(lines, pos) ==
  IF pos >= Len(lines) THEN <<>> ELSE lines[pos + 1] \o <<"\n">> \o TextFrom(lines, pos + 1)

\* ------------------------------------------------------- detect_type, called
\* All text of at most n characters over cs.
TextUpTo(cs, n) == UNION {[1..k -> cs] : k \in 0..n}

\* The characters of the exhaustive raw values, and some longer raw values.
ValChars == {"0", "1", "2", ".", ",", "-", " ", "\n", "y", "N"}
ValWords ==
  { <<"t", "r", "u", "e">>, <<"T", "r", "u", "e">>, <<"Y", "E", "S">>, <<"n", "o">>,
    <<"F", "a", "l", "s", "e">>, <<"h", "e", "l", "l", "o">>, <<"-", "1", ".", "5">>,
    <<"3", ",", "1", "4">>, <<"2", ".", "5", "\n">>, <<"N", "o", "n", "e">> }

RawValues == {None} \cup {StrV(t) : t \in TextUpTo(ValChars, MaxValLen) \cup ValWords}

DetectTypeIdle == raw_value = None /\ detected = None

\* The lines samples are made of, and the most lines of a sample.
MaxSampleLines == 3
SampleLines ==
  { <<"a", ",", "b", ",", "c">>, <<"1", ",", "2", ",", "3">>, <<"4", ",", "5", ",", "6">>,
    <<"a", ";", "b">>, <<"1", ";", "2">>, <<>>, <<"#", ",", ",">>,
    <<"a", "|", "b">>, <<"a", "\t", "b">>, <<"\"", "a", ",", "b">>,
    <<"a">>, <<"a", " ", " ", " ", " ", " ", " ", "\t", "b">> }
Samples ==
  {Join(ls, <<"\n">>) : ls \in UNION {[1..k -> SampleLines] : k \in 1..MaxSampleLines}}

DetectDelimiterIdle == sample = <<>> /\ chosen = "" /\ chosen_again = ""

\* -------------------------------------------------- convert_data_types, called
\* The most rows of a document without transforms, and of one with transforms.
MaxRows == 3
MaxSpecRows == 2

ColC == <<"c">>
ColName == <<"n", "a", "m", "e">>

\* Raw cells as the parsers leave them (text or None), and already typed cells.
RawCells ==
  { None, StrV(<<"1">>), StrV(<<"2", ".", "5">>), StrV(<<"3">>), StrV(<<"0">>),
    StrV(<<"2">>), StrV(<<"x">>), StrV(<<"1", "0", "0", "0">>) }
TypedCells ==
  { None, BoolV(TRUE), IntV(1), IntV(3), FloatV(2 * FloatScale),
    FloatV(25 * (FloatScale \div 10)), IntV(FloatLimit) }
NameCells ==
  { None, StrV(<<" ", " ", "b", "o", "b", " ">>), StrV(<<"a", "X", "a">>), StrV(<<" ", "Y", " ">>), StrV(<<"1", "X">>), StrV(<<"1">>),
    StrV(<<"2", ".", "5">>) }

\* A row with the one column c, or without it: an empty row, or a row that holds
\* the column name alone (the rows of a document need not have the same keys).
RowsOfC(cells) ==
  {<<>>} \cup {<<[k |-> ColC, v |-> v]>> : v \in cells}
         \cup {<<[k |-> ColName, v |-> v]>> : v \in cells \cap {StrV(<<"1">>), IntV(1)}}
DocsOfC(cells, n) == UNION {[1..m -> RowsOfC(cells)] : m \in 0..n}

\* Rows with the columns name and c.
SpecRows ==
  {<<[k |-> ColName, v |-> a], [k |-> ColC, v |-> b]>> :
     a \in NameCells, b \in {StrV(<<"1">>), StrV(<<"2", ".", "5">>)}}
SpecDocs == UNION {[1..m -> SpecRows] : m \in 1..MaxSpecRows}

\* The transform specs tried on the column name.
NameSpecs ==
  { [type |-> "string", transformations |-> <<[name |-> <<"t", "r", "i", "m">>, params |-> <<>>], [name |-> <<"u", "p", "p", "e", "r">>, params |-> <<>>]>>],
    [type |-> "string", transformations |-> <<[name |-> <<"u", "p", "p", "e", "r">>, params |-> <<>>], [name |-> <<"t", "r", "i", "m">>, params |-> <<>>]>>],
    [type |-> "string", transformations |-> <<[name |-> <<"r", "e", "p", "l", "a", "c", "e">>, params |-> <<<<"a">>, <<"b">>>>], [name |-> <<"u", "p", "p", "e", "r">>, params |-> <<>>]>>],
    [type |-> "string", transformations |-> <<[name |-> <<"u", "p", "p", "e", "r">>, params |-> <<>>], [name |-> <<"r", "e", "p", "l", "a", "c", "e">>, params |-> <<<<"a">>, <<"b">>>>]>>],
    [type |-> "bool", transformations |-> <<[name |-> <<"t", "r", "i", "m">>, params |-> <<>>]>>],
    [type |-> "int", transformations |-> <<[name |-> <<"r", "e", "p", "l", "a", "c", "e">>, params |-> <<<<"X">>, <<>>>>]>>],
    [type |-> "string", transformations |-> <<[name |-> <<"r", "e", "p", "l", "a", "c", "e">>, params |-> <<<<"1">>, <<"x">>>>]>>],
    [type |-> "string", transformations |-> <<[name |-> <<"l", "o", "w", "e", "r">>, params |-> <<>>], [name |-> <<"c", "a", "p", "i", "t", "a", "l", "i", "z", "e">>, params |-> <<>>]>>],
    [type |-> "float", transformations |-> <<[name |-> <<"r", "e", "v", "e", "r", "s", "e">>, params |-> <<>>], [name |-> <<"t", "i", "t", "l", "e">>, params |-> <<>>]>>],
    [type |-> "int", transformations |-> <<>>] }

\* ----------------------------------------------------- parse_transforms, called
\* The entries directives are made of, and the most entries of a directive.
MaxEntries == 2
Entries ==
  { <<"n", "a", "m", "e", ":", "s", "t", "r", "i", "n", "g", "/", "t", "r", "i", "m", "/", "u", "p", "p", "e", "r">>,
    <<"n", "a", "m", "e", ":", "T", "E", "X", "T", "/", " ", "U", "p", "p", "e", "r", " ", "/", "f", "r", "o", "b">>,
    <<"n", "a", "m", "e", ":", "s", "t", "r", "/", "r", "e", "p", "l", "a", "c", "e", ":", "a", "=", "b", "=", "c">>,
    <<"c", ":", "i", "n", "t", "e", "g", "e", "r">>,
    <<"c", ":", "n", "u", "m", "b", "e", "r", "/", "r", "e", "p", "l", "a", "c", "e", ":", "a", "b">>,
    <<"n", "o", "c", "o", "l", "o", "n">>,
    <<":", "i", "n", "t">>,
    <<" ", "n", "a", "m", "e", " ", ":", "B", "o", "o", "l", "/", "/", "t", "r", "i", "m">>,
    <<"n", "a", "m", "e", ":", "f", "o", "o", "/", "R", "e", "p", "l", "a", "c", "e", ":", "a", "=", "b">>,
    <<>> }
Directives == {Join(es, <<",">>) : es \in UNION {[1..n -> Entries] : n \in 0..MaxEntries}}

ConvertIdle ==
  transform_arg = <<>> /\ doc_input = <<>> /\ doc_transforms = <<>> /\ doc_outputs = <<>>

\* ------------------------------------------------------------ save_json, called
\* The most records of a document handed to save_json.
MaxRecords == 3

ColId == <<"i", "d">>
ColV == <<"v">>
IdCells == {StrV(<<"a">>), StrV(<<"b">>), IntV(1), BoolV(TRUE)}

\* Records with the column v, and with or without the column id.
IdRecords ==
  {<<[k |-> ColV, v |-> w]>> : w \in {IntV(1), IntV(2)}}
    \cup {<<[k |-> ColId, v |-> a], [k |-> ColV, v |-> w]>> : a \in IdCells, w \in {IntV(1), IntV(2)}}
PositionalRecords == {<<StrV(<<"a">>), IntV(1)>>, <<IntV(2)>>}

SaveInputs ==
  {[keyed |-> TRUE, rows |-> rs] : rs \in UNION {[1..m -> IdRecords] : m \in 0..MaxRecords}}
    \cup {[keyed |-> FALSE, rows |-> rs] :
            rs \in UNION {[1..m -> PositionalRecords] : m \in 1..MaxRecords}}

NothingLoaded == [keyed |-> FALSE, rows |-> <<>>]
NothingEmitted == [mapping |-> FALSE, items |-> <<>>, rows |-> <<>>]
SaveIdle == loaded = NothingLoaded /\ id_option = <<>> /\ emitted = NothingEmitted

\* -------------------------------------------------------------- convert, called
\* The output file: none, the one a run before left, and the text of a file that
\* was opened for writing and not written to.
NoText == [opened |-> "", items |-> <<>>, rows |-> <<>>, closed |-> FALSE]
NoFile == [exists |-> FALSE, text |-> NoText]
PreviousFile ==
  [exists |-> TRUE,
   text |-> [opened |-> "[", items |-> <<>>, rows |-> <<<<IntV(0)>>>>, closed |-> TRUE]]
FilesIdle == json_file = NoFile /\ sort_keys = FALSE

\* ------------------------------------------------------------- load_csv, called
\* The most lines of an input file.
MaxFileLines == 3

\* The lines of the files read with a comma, with tabs and with the two-character
\* delimiter "::", which csv.reader refuses.
CommaLines ==
  { <<"a", ",", "b">>,
    <<"1", ",", "\"", "x">>,
    <<"3", ",", "4">>,
    <<"5">>,
    <<"6", ",", "7", ",", "8">>,
    <<"a", ",">>,
    <<",">>,
    <<"#", "c">>,
    <<>> }
TabLines ==
  { <<"a", "\t", "b">>,
    <<"1", "\t", "2">>,
    <<"3", "\t", "\t", "4", "\t", "5">>,
    <<"1", "\t", " ", "\t", "2">>,
    <<"#", "c">> }
ColonLines ==
  { <<"\"", "a", "\"", ":", ":", "b">>,
    <<"\"", "1", "\"", ":", ":", "2">>,
    <<"x", ":", ":", "y">>,
    <<"\"", "1", "\"", ":", ":">>,
    <<"\"", "1", ":", ":", "2", "\"">>,
    <<"\"", "\"", ":", ":", "2">>,
    <<":", ":", "y">>,
    <<"#", "c">> }
\* The numbers of these lines are below FloatLimit: no coercion raises under load_csv.
FilesOf(ls) == UNION {[1..k -> ls] : k \in 0..MaxFileLines}

HeadersAB == <<<<"a">>, <<"b">>>>

\* The keyword arguments of load_csv; a delimiter or custom_headers that is None
\* is written <<>> (no call passes an empty delimiter or an empty header list).
\* quotechar and verbose keep their defaults.
DefaultOptions ==
  [delimiter |-> <<>>, remove_empty |-> FALSE, custom_headers |-> <<>>,
   missing_header |-> FALSE, skip_first_row |-> 0, detect_types |-> TRUE,
   transforms |-> <<>>, ignore_column_mismatch |-> FALSE]
Declared == [DefaultOptions EXCEPT !.custom_headers = HeadersAB, !.missing_header = TRUE]
\* The transforms of the directive a:string/upper.
UpperA ==
  <<[k |-> <<"a">>,
     v |-> [type |-> "string", transformations |-> <<[name |-> <<"u", "p", "p", "e", "r">>, params |-> <<>>]>>]]>>

CommaOptions ==
  { DefaultOptions,
    [DefaultOptions EXCEPT !.delimiter = <<",">>, !.detect_types = FALSE],
    [DefaultOptions EXCEPT !.skip_first_row = 1],
    [DefaultOptions EXCEPT !.delimiter = <<",">>, !.skip_first_row = 2],
    [DefaultOptions EXCEPT !.delimiter = <<",">>, !.remove_empty = TRUE],
    [DefaultOptions EXCEPT !.delimiter = <<",">>, !.missing_header = TRUE],
    [Declared EXCEPT !.delimiter = <<",">>],
    [Declared EXCEPT !.delimiter = <<",">>, !.remove_empty = TRUE],
    [Declared EXCEPT !.delimiter = <<",">>, !.ignore_column_mismatch = TRUE],
    [Declared EXCEPT !.delimiter = <<",">>, !.detect_types = FALSE],
    [DefaultOptions EXCEPT !.delimiter = <<",">>, !.detect_types = FALSE, !.transforms = UpperA],
    [Declared EXCEPT !.missing_header = FALSE, !.skip_first_row = 1] }
TabOptions ==
  { [DefaultOptions EXCEPT !.delimiter = <<"\t">>],
    DefaultOptions,
    [DefaultOptions EXCEPT !.delimiter = <<"\t">>, !.missing_header = TRUE],
    [DefaultOptions EXCEPT !.delimiter = <<"\t">>, !.remove_empty = TRUE],
    [DefaultOptions EXCEPT !.delimiter = <<"\t">>, !.detect_types = FALSE],
    [DefaultOptions EXCEPT !.delimiter = <<"\t">>, !.detect_types = FALSE, !.transforms = UpperA],
    [Declared EXCEPT !.delimiter = <<"\t">>],
    [Declared EXCEPT !.delimiter = <<"\t">>, !.remove_empty = TRUE, !.skip_first_row = 1] }
ColonOptions ==
  { [DefaultOptions EXCEPT !.delimiter = <<":", ":">>],
    [DefaultOptions EXCEPT !.delimiter = <<":", ":">>, !.skip_first_row = 1],
    [DefaultOptions EXCEPT !.delimiter = <<":", ":">>, !.missing_header = TRUE],
    [DefaultOptions EXCEPT !.delimiter = <<":", ":">>, !.remove_empty = TRUE],
    [Declared EXCEPT !.delimiter = <<":", ":">>],
    [Declared EXCEPT !.delimiter = <<":", ":">>, !.detect_types = FALSE],
    [Declared EXCEPT !.delimiter = <<":", ":">>, !.detect_types = FALSE, !.transforms = UpperA],
    [Declared EXCEPT !.delimiter = <<":", ":">>, !.skip_first_row = 1, !.detect_types = FALSE] }

LoadIdle ==
  /\ fp_in = <<>> /\ fp_pos = 0 /\ options = DefaultOptions /\ delimiter_used = <<>>
  /\ stderr = <<>> /\ primary_start = 0 /\ fallback_start = 0

InitDetectType ==
  /\ pc = "detect_type"
  /\ raw_value \in RawValues
  /\ detected = None
  /\ DetectDelimiterIdle
  /\ ConvertIdle
  /\ SaveIdle
  /\ LoadIdle
  /\ FilesIdle

DetectType ==
  /\ pc = "detect_type"
  /\ detected' = detect_type(raw_value)
  /\ pc' = "detect_type_returned"
  /\ UNCHANGED <<raw_value, detectDelimiterVars, convertVars, fileVars, saveVars, loadVars>>

NextDetectType == DetectType

SpecDetectType == InitDetectType /\ [][NextDetectType]_vars

InitDetectDelimiter ==
  /\ pc = "detect_delimiter"
  /\ sample \in Samples
  /\ chosen = ""
  /\ chosen_again = ""
  /\ DetectTypeIdle
  /\ ConvertIdle
  /\ SaveIdle
  /\ LoadIdle
  /\ FilesIdle

DetectDelimiter ==
  /\ pc = "detect_delimiter"
  /\ chosen' = detect_delimiter(sample)
  /\ pc' = "detect_delimiter_again"
  /\ UNCHANGED <<sample, chosen_again, detectTypeVars, convertVars, fileVars, saveVars, loadVars>>

DetectDelimiterAgain ==
  /\ pc = "detect_delimiter_again"
  /\ chosen_again' = detect_delimiter(sample)
  /\ pc' = "detect_delimiter_returned"
  /\ UNCHANGED <<sample, chosen, detectTypeVars, convertVars, fileVars, saveVars, loadVars>>

NextDetectDelimiter == DetectDelimiter \/ DetectDelimiterAgain

SpecDetectDelimiter == InitDetectDelimiter /\ [][NextDetectDelimiter]_vars

InitConvert ==
  /\ pc = "convert_data_types"
  /\ \/ /\ doc_input \in DocsOfC(RawCells, MaxRows) \cup DocsOfC(TypedCells, MaxRows)
        /\ doc_transforms = <<>>
     \/ /\ doc_input \in SpecDocs
        /\ doc_transforms \in {<<[k |-> ColName, v |-> s]>> : s \in NameSpecs}
  /\ transform_arg = <<>>
  /\ doc_outputs = <<>>
  /\ DetectTypeIdle
  /\ DetectDelimiterIdle
  /\ SaveIdle
  /\ LoadIdle
  /\ FilesIdle

\* The rows of the next call: the input, and then what the call before returned.
NextRows == IF doc_outputs = <<>> THEN doc_input ELSE doc_outputs[Len(doc_outputs)]

\* convert_data_types(rows, transforms=transforms), first on the input and then
\* once more on what it returned.
ConvertDataTypes ==
  /\ pc = "convert_data_types"
  /\ ~convert_data_types_raises(NextRows, <<>>, doc_transforms)
  /\ doc_outputs' = Append(doc_outputs, convert_data_types(NextRows, <<>>, doc_transforms))
  /\ pc' = IF doc_outputs = <<>> THEN pc ELSE "convert_data_types_returned"
  /\ UNCHANGED <<transform_arg, doc_input, doc_transforms, detectTypeVars, detectDelimiterVars,
               saveVars, loadVars, fileVars>>

\* The call ends with the exception of a coercion.
ConvertDataTypesRaises ==
  /\ pc = "convert_data_types"
  /\ convert_data_types_raises(NextRows, <<>>, doc_transforms)
  /\ pc' = "convert_data_types_raised"
  /\ UNCHANGED <<detectTypeVars, detectDelimiterVars, convertVars, saveVars, loadVars, fileVars>>

NextConvert == ConvertDataTypes \/ ConvertDataTypesRaises

SpecConvert == InitConvert /\ [][NextConvert]_vars

\* cli, lines 924-926: the directive is parsed and the transforms are handed on
\* to the conversion of the rows, here of one row with the columns name and c.
InitParseTransforms ==
  /\ pc = "parse_transforms"
  /\ transform_arg \in Directives
  /\ doc_input \in {<<row>> : row \in SpecRows}
  /\ doc_transforms = <<>>
  /\ doc_outputs = <<>>
  /\ DetectTypeIdle
  /\ DetectDelimiterIdle
  /\ SaveIdle
  /\ LoadIdle
  /\ FilesIdle

ParseTransforms ==
  /\ pc = "parse_transforms"
  /\ doc_transforms' = parse_transforms(transform_arg)
  /\ pc' = "convert_data_types"
  /\ UNCHANGED <<transform_arg, doc_input, doc_outputs, detectTypeVars, detectDelimiterVars,
               saveVars, loadVars, fileVars>>

NextParseTransforms == ParseTransforms \/ ConvertDataTypes

SpecParseTransforms == InitParseTransforms /\ [][NextParseTransforms]_vars

InitSave ==
  /\ pc = "save_json"
  /\ loaded \in SaveInputs
  /\ id_option \in {<<>>, ColId, <<"z">>}
  /\ emitted = NothingEmitted
  /\ DetectTypeIdle
  /\ DetectDelimiterIdle
  /\ ConvertIdle
  /\ LoadIdle
  /\ FilesIdle

SaveJson ==
  /\ pc = "save_json"
  /\ emitted' = save_json(loaded, id_option)
  /\ pc' = "save_json_returned"
  /\ UNCHANGED <<loaded, id_option, detectTypeVars, detectDelimiterVars, convertVars, fileVars, loadVars>>

NextSave == SaveJson

SpecSave == InitSave /\ [][NextSave]_vars

\* -------------------------------------------------------------- convert, called
InitLoadCsv ==
  /\ pc = "load_csv"
  /\ \/ fp_in \in FilesOf(CommaLines) /\ options \in CommaOptions
     \/ fp_in \in FilesOf(TabLines) /\ options \in TabOptions
     \/ fp_in \in FilesOf(ColonLines) /\ options \in ColonOptions
  /\ fp_pos = 0
  /\ delimiter_used = <<>>
  /\ stderr = <<>>
  /\ primary_start = 0
  /\ fallback_start = 0
  /\ loaded = NothingLoaded
  /\ id_option = <<>>
  /\ emitted = NothingEmitted
  /\ DetectTypeIdle
  /\ DetectDelimiterIdle
  /\ ConvertIdle
  /\ FilesIdle

\* Lines 505-507: the read position after the sample was read from current_pos,
\* to the end of an input of at most SampleSize characters, and sought back.
sample_position(lines, pos) ==
  LET current_pos == pos
      read_to == IF Len(TextFrom(lines, pos)) <= SampleSize THEN Len(lines) ELSE pos + 1
      sought == current_pos
  IN sought

\* Lines 503-522: without a delimiter, the sample is read from the position and the
\* position is restored; an empty sample leaves the comma.
AutoDetect ==
  /\ pc = "load_csv"
  /\ LET sample_read == Take(TextFrom(fp_in, fp_pos), SampleSize)
     IN IF options.delimiter = <<>> /\ sample_read # <<>>
        THEN /\ delimiter_used' = <<detect_delimiter(sample_read)>>
             /\ stderr' = Append(stderr, AutoDetected)
        ELSE /\ delimiter_used' = IF options.delimiter = <<>> THEN <<",">> ELSE options.delimiter
             /\ stderr' = stderr
  /\ fp_pos' = IF options.delimiter = <<>> THEN sample_position(fp_in, fp_pos) ELSE fp_pos
  /\ pc' = "validate_header_count"
  /\ UNCHANGED <<fp_in, options, primary_start, fallback_start>>
  /\ UNCHANGED <<detectTypeVars, detectDelimiterVars, convertVars, fileVars, saveVars>>

\* Lines 525-526.
ValidateHeaderCount ==
  /\ pc = "validate_header_count"
  /\ stderr' = stderr \o validate_header_count(fp_in, fp_pos, options.custom_headers,
                                               delimiter_used, options.ignore_column_mismatch)
  /\ fp_pos' = validate_header_position(fp_in, fp_pos, options.custom_headers)
  /\ pc' = "skip_rows"
  /\ UNCHANGED <<fp_in, options, delimiter_used, primary_start, fallback_start>>
  /\ UNCHANGED <<detectTypeVars, detectDelimiterVars, convertVars, fileVars, saveVars>>

\* Lines 535-551.
Skip ==
  /\ pc = "skip_rows"
  /\ fp_pos' = SkipComments(fp_in, SkipRows(fp_in, fp_pos, options.skip_first_row))
  /\ pc' = "parse"
  /\ UNCHANGED <<fp_in, options, delimiter_used, stderr, primary_start, fallback_start>>
  /\ UNCHANGED <<detectTypeVars, detectDelimiterVars, convertVars, fileVars, saveVars>>

\* Lines 553-606: the parser of the delimiter reads the input to its end and
\* load_csv returns its document.
PrimaryReturns ==
  /\ pc = "parse"
  /\ delimiter_used = <<"\t">> \/ ValidDelimiter(delimiter_used)
  /\ loaded' = IF delimiter_used = <<"\t">>
               THEN parse_tab_delimited_file(fp_in, fp_pos, options.custom_headers,
                      options.missing_header, options.detect_types, options.transforms)
               ELSE PrimaryParse(fp_in, fp_pos, delimiter_used, options)
  /\ primary_start' = fp_pos
  /\ fp_pos' = Len(fp_in)
  /\ pc' = "save_json"
  /\ UNCHANGED <<fp_in, options, delimiter_used, stderr, fallback_start, id_option, emitted>>
  /\ UNCHANGED <<detectTypeVars, detectDelimiterVars, convertVars, fileVars>>

\* Lines 561-582 and 607-619: the reader refuses the delimiter before it reads a
\* line; the error is reported, the input rewound and the rows skipped again.
PrimaryRaises ==
  /\ pc = "parse"
  /\ delimiter_used # <<"\t">> /\ ~ValidDelimiter(delimiter_used)
  /\ stderr' = Append(stderr, ParsingError)
  /\ primary_start' = fp_pos
  /\ fp_pos' = SkipRows(fp_in, 0, options.skip_first_row)
  /\ pc' = "fallback_csv_parse"
  /\ UNCHANGED <<fp_in, options, delimiter_used, fallback_start>>
  /\ UNCHANGED <<detectTypeVars, detectDelimiterVars, convertVars, fileVars, saveVars>>

\* Lines 621-622: load_csv returns what the fallback makes of the input.
FallbackParse ==
  /\ pc = "fallback_csv_parse"
  /\ loaded' = fallback_csv_parse(fp_in, fp_pos, delimiter_used, options)
  /\ fallback_start' = IF delimiter_used = <<"\t">> THEN fp_pos
                       ELSE FallbackLinesFrom(fp_in, fp_pos, options.skip_first_row)
  /\ fp_pos' = Len(fp_in)
  /\ pc' = "save_json"
  /\ UNCHANGED <<fp_in, options, delimiter_used, stderr, primary_start, id_option, emitted>>
  /\ UNCHANGED <<detectTypeVars, detectDelimiterVars, convertVars, fileVars>>

NextLoadCsv ==
  \/ AutoDetect
  \/ ValidateHeaderCount
  \/ Skip
  \/ PrimaryReturns
  \/ PrimaryRaises
  \/ FallbackParse
  \/ SaveJson

SpecLoadCsv == InitLoadCsv /\ [][NextLoadCsv]_vars

\* ---------------------------------------------------- fallback_csv_parse, called
\* fallback_csv_parse called on an input at its start, with a delimiter.
InitFallbackParse ==
  /\ pc = "fallback_csv_parse"
  /\ \/ fp_in \in FilesOf(CommaLines) /\ options \in CommaOptions
     \/ fp_in \in FilesOf(TabLines) /\ options \in TabOptions
     \/ fp_in \in FilesOf(ColonLines) /\ options \in ColonOptions
  /\ options.delimiter # <<>>
  /\ delimiter_used = options.delimiter
  /\ fp_pos = 0
  /\ stderr = <<>>
  /\ primary_start = 0
  /\ fallback_start = 0
  /\ loaded = NothingLoaded
  /\ id_option = <<>>
  /\ emitted = NothingEmitted
  /\ DetectTypeIdle
  /\ DetectDelimiterIdle
  /\ ConvertIdle
  /\ FilesIdle

NextFallbackParse == FallbackParse

SpecFallbackParse == InitFallbackParse /\ [][NextFallbackParse]_vars

\* convert with file names (lines 799-830); load_csv is taken to return any of the
\* documents save_json is studied on.
InitConvertFiles ==
  /\ pc = "convert"
  /\ json_file \in {NoFile, PreviousFile}
  /\ sort_keys \in BOOLEAN
  /\ id_option \in {<<>>, ColId}
  /\ loaded = NothingLoaded
  /\ emitted = NothingEmitted
  /\ DetectTypeIdle
  /\ DetectDelimiterIdle
  /\ ConvertIdle
  /\ LoadIdle

\* Lines 808-816: open(json_file, 'w') creates the file or empties it.
OpenFiles ==
  /\ pc = "convert"
  /\ json_file' = [exists |-> TRUE, text |-> NoText]
  /\ pc' = "convert_load_csv"
  /\ UNCHANGED <<sort_keys, detectTypeVars, detectDelimiterVars, convertVars, saveVars, loadVars>>

\* Line 822.
LoadCsvReturns ==
  /\ pc = "convert_load_csv"
  /\ \E data \in SaveInputs : loaded' = data
  /\ pc' = "convert_save_json"
  /\ UNCHANGED <<id_option, emitted, fileVars, detectTypeVars, detectDelimiterVars,
                 convertVars, loadVars>>

\* Line 823: save_json builds the object and json.dump writes it, or raises with
\* a part of it written.
DumpJson ==
  /\ pc = "convert_save_json"
  /\ emitted' = save_json(loaded, id_option)
  /\ json_file' = [exists |-> TRUE,
                   text |-> json_dump(save_json(loaded, id_option), loaded.keyed, sort_keys)]
  /\ pc' = IF json_dump(save_json(loaded, id_option), loaded.keyed, sort_keys).closed
           THEN "finally" ELSE "finally_raised"
  /\ UNCHANGED <<loaded, id_option, sort_keys, detectTypeVars, detectDelimiterVars,
                 convertVars, loadVars>>

\* Lines 824-829: the files are closed, and convert returns or the exception goes on.
CloseFiles ==
  /\ pc \in {"finally", "finally_raised"}
  /\ pc' = IF pc = "finally" THEN "convert_returned" ELSE "convert_raised"
  /\ UNCHANGED <<detectTypeVars, detectDelimiterVars, convertVars, saveVars, loadVars, fileVars>>

NextConvertFiles == OpenFiles \/ LoadCsvReturns \/ DumpJson \/ CloseFiles

SpecConvertFiles == InitConvertFiles /\ [][NextConvertFiles]_vars

\* ------------------------------------------------------------------------ C1
\* The values of column key, row by row, of the rows that have it.
ColumnValues(rows, key) ==
  {Get(rows[i], key) : i \in {j \in 1..Len(rows) : HasKey(rows[j], key)}}

OneTwoPointFiveThree(rows) ==
  /\ Len(rows) = 3
  /\ \A i \in 1..3 : HasKey(rows[i], ColC)
  /\ ColumnValues(rows, ColC) = {StrV(<<"1">>), StrV(<<"2", ".", "5">>), StrV(<<"3">>)}

\* C1: for a column whose raw values are "1", "2.5" and "3" the conversion pass,
\* without transforms and hints, infers float for the column and every value of
\* the column comes out a Float.
C1_FloatForWholeColumn ==
  (doc_outputs # <<>> /\ doc_transforms = <<>> /\ OneTwoPointFiveThree(doc_input)) =>
    /\ Get(ColumnTypes(DetectPass(doc_input, <<>>, <<>>), <<>>, <<>>), ColC) = "float"
    /\ \A v \in ColumnValues(doc_outputs[1], ColC) : IsFloat(v)

\* ------------------------------------------------------------------------ C3
\* The first n transformations of ops applied to v one after the other.
RECURSIVE InDeclarationOrder(_, _, _)
InDeclarationOrder(v, ops, n) ==
  IF n = 0 THEN v ELSE ApplyOne(InDeclarationOrder(v, ops, n - 1), ops[n])

\* C3: every value of a column with a TransformSpec comes out as the raw value
\* put through the column's transforms in declaration order, each output feeding
\* the next, and coerced toward the declared type only after the last of them;
\* name:string/trim/upper turns "  bob " into "BOB".
C3_TransformsThenCoercion ==
  (doc_outputs # <<>> /\ doc_transforms # <<>>) =>
    \A r \in 1..Len(doc_input) : \A i \in 1..Len(doc_input[r]) :
      LET key == doc_input[r][i].k
          raw == doc_input[r][i].v
          out == doc_outputs[1][r][i].v
      IN (HasKey(doc_transforms, key) /\ ~IsNone(raw)) =>
           LET spec == Get(doc_transforms, key)
               ops == spec.transformations
           IN /\ out = Coerce(InDeclarationOrder(raw, ops, Len(ops)), spec.type)
              /\ ( /\ raw = StrV(<<" ", " ", "b", "o", "b", " ">>)
                   /\ spec.type = "string"
                   /\ [j \in 1..Len(ops) |-> ops[j].name] = <<<<"t", "r", "i", "m">>, <<"u", "p", "p", "e", "r">>>> )
                 => out = StrV(<<"B", "O", "B">>)

\* A value was trimmed first and only then coerced to the declared bool, and a
\* replace ran before an upper.
C3_Witness ==
  /\ doc_outputs # <<>>
  /\ doc_transforms # <<>>
  /\ \E r \in 1..Len(doc_input) :
       \/ /\ Get(doc_input[r], ColName) = StrV(<<" ", "Y", " ">>)
          /\ Get(doc_transforms, ColName).type = "bool"
          /\ Get(doc_outputs[1][r], ColName) = BoolV(TRUE)
       \/ /\ Get(doc_input[r], ColName) = StrV(<<"a", "X", "a">>)
          /\ Get(doc_outputs[1][r], ColName) = StrV(<<"B", "X", "B">>)

\* ------------------------------------------------------------------------ C6
HasId(record) == HasKey(record, id_option)
Rekeyed ==
  /\ pc = "save_json_returned"
  /\ id_option # <<>>
  /\ loaded.keyed
  /\ \E r \in 1..Len(loaded.rows) : HasId(loaded.rows[r])
Unchanged == ~emitted.mapping /\ emitted.rows = loaded.rows

\* The statement of C6 as written: the mapping takes each record's id value to that
\* record and holds exactly the records that have the field; without any such
\* record, or on positional data, the sequence is emitted unchanged.
C6_EveryRecordUnderItsId ==
  /\ Rekeyed =>
       /\ emitted.mapping
       /\ \A r \in 1..Len(loaded.rows) :
            HasId(loaded.rows[r]) =>
              \E i \in 1..Len(emitted.items) :
                /\ emitted.items[i].k = Get(loaded.rows[r], id_option)
                /\ emitted.items[i].v = loaded.rows[r]
       /\ \A i \in 1..Len(emitted.items) :
            \E r \in 1..Len(loaded.rows) :
              HasId(loaded.rows[r]) /\ emitted.items[i].v = loaded.rows[r]
  /\ (pc = "save_json_returned" /\ ~Rekeyed) => Unchanged

\* The records that carry an id equal, as a dictionary key, to id.
Carrying(id) ==
  {r \in 1..Len(loaded.rows) :
     HasId(loaded.rows[r]) /\ KeyEq(Get(loaded.rows[r], id_option), id)}
FirstOf(S) == CHOOSE r \in S : \A q \in S : r <= q
LastOf(S) == CHOOSE r \in S : \A q \in S : q <= r

\* C6 as amended: the mapping has one entry per distinct id value (values compared
\* as dictionary keys, True, 1 and 1.0 being one value), keyed by the first value
\* met and holding the last record that carries it; records without the field are
\* dropped; without any record that has the field, without an id field, or on
\* positional data, the sequence is emitted unchanged.
C6_LastRecordPerId ==
  /\ Rekeyed =>
       /\ emitted.mapping
       /\ \A r \in 1..Len(loaded.rows) :
            HasId(loaded.rows[r]) =>
              \E i \in 1..Len(emitted.items) :
                LET S == Carrying(Get(loaded.rows[r], id_option))
                IN /\ emitted.items[i].k = Get(loaded.rows[FirstOf(S)], id_option)
                   /\ emitted.items[i].v = loaded.rows[LastOf(S)]
       /\ \A i \in 1..Len(emitted.items) :
            /\ Carrying(emitted.items[i].k) # {}
            /\ \A j \in 1..Len(emitted.items) :
                 KeyEq(emitted.items[i].k, emitted.items[j].k) => i = j
  /\ (pc = "save_json_returned" /\ ~Rekeyed) => Unchanged

\* A re-keyed document in which two different records carried the same id and a
\* third record had no id at all.
C6_Witness ==
  /\ Rekeyed
  /\ emitted.mapping
  /\ \E r \in 1..Len(loaded.rows) : ~HasId(loaded.rows[r])
  /\ \E r, q \in 1..Len(loaded.rows) :
       /\ r < q
       /\ HasId(loaded.rows[r]) /\ HasId(loaded.rows[q])
       /\ loaded.rows[r] # loaded.rows[q]
       /\ Get(loaded.rows[r], id_option) = Get(loaded.rows[q], id_option)

\* ------------------------------------------------------------------------ C7
NoStrings(rows) == \A r \in 1..Len(rows) : \A i \in 1..Len(rows[r]) : ~IsStr(rows[r][i].v)

\* C7: for a keyed record set without String values and without transforms, a
\* second convert_data_types pass over the output of the first leaves every
\* value as it is, in value and in type tag.
C7_SecondPassNoOp ==
  (Len(doc_outputs) = 2 /\ doc_transforms = <<>> /\ NoStrings(doc_input)) =>
    doc_outputs[2] = doc_outputs[1]

\* A typed document that the first pass changed and the second left alone.
C7_Witness ==
  /\ Len(doc_outputs) = 2
  /\ doc_transforms = <<>>
  /\ NoStrings(doc_input)
  /\ doc_outputs[1] # doc_input
  /\ doc_outputs[2] = doc_outputs[1]

\* ------------------------------------------------------------------------ C2
\* The rules of the type detector as the specification orders them, a sign being
\* one leading "-" of a number.
Unsigned(t) == IF t # <<>> /\ Head(t) = "-" THEN Tail(t) ELSE t
Signed(t, m) == IF t # <<>> /\ Head(t) = "-" THEN -m ELSE m

DigitsSepDigits(t, sep) ==
  LET k == IndexOf(t, sep)
  IN k > 0 /\ AllDigits(SubSeq(t, 1, k - 1)) /\ AllDigits(SubSeq(t, k + 1, Len(t)))

DecimalOf(t, sep) ==
  LET k == IndexOf(t, sep)
      fp == SubSeq(t, k + 1, Len(t))
  IN DigitsVal(SubSeq(t, 1, k - 1)) * FloatScale + DigitsVal(fp) * Pow10(FracDigits - Len(fp))

RuleOrder(v) ==
  IF IsNone(v) \/ \A i \in 1..Len(v.s) : v.s[i] \in Whitespace THEN None
  ELSE IF Lower(v.s) \in TrueWords THEN BoolV(TRUE)
  ELSE IF Lower(v.s) \in FalseWords THEN BoolV(FALSE)
  ELSE IF AllDigits(Unsigned(v.s)) THEN IntV(Signed(v.s, DigitsVal(Unsigned(v.s))))
  ELSE IF DigitsSepDigits(Unsigned(v.s), ".")
    THEN FloatV(Signed(v.s, DecimalOf(Unsigned(v.s), ".")))
  ELSE IF DigitsSepDigits(Unsigned(v.s), ",")
    THEN FloatV(Signed(v.s, DecimalOf(Unsigned(v.s), ",")))
  ELSE v

\* C2: detect_type returns, for every raw value, the result of the first matching
\* rule: absent, empty or whitespace-only gives Null; a true word gives Bool(true);
\* a false word gives Bool(false); a signed digit string gives Int; digits "."
\* digits gives Float; digits "," digits gives that Float; anything else comes back
\* unchanged as String.
C2_DetectTypeRules ==
  pc = "detect_type_returned" => detected = RuleOrder(raw_value)

\* ------------------------------------------------------------------------ C9
Candidates == {possible_delimiters[i] : i \in 1..Len(possible_delimiters)}
NoNonBlankLine(t) == \A i \in 1..Len(Split(t, "\n")) : IsBlank(Split(t, "\n")[i])
AllScoresZero(t) == \A d \in Candidates : FinalScore(t, d) = 0
DelimiterChosen == pc \in {"detect_delimiter_again", "detect_delimiter_returned"}

\* C9: detect_delimiter returns one of comma, semicolon, pipe, tab; it returns comma
\* when the sample is empty, has no non-blank line, holds no candidate character
\* at all, or every candidate's final score is zero; it returns comma for
\* "a,b,c\n1,2,3\n4,5,6" and semicolon for "a;b\n1;2".
C9_DelimiterDefault ==
  DelimiterChosen =>
    /\ chosen \in {",", ";", "|", "\t"}
    /\ (sample = <<>> \/ NoNonBlankLine(sample) \/ AllScoresZero(sample)) => chosen = ","
    /\ (\A d \in Candidates : ~Contains(sample, d)) => chosen = ","
    /\ sample = <<"a", ",", "b", ",", "c", "\n", "1", ",", "2", ",", "3", "\n",
                  "4", ",", "5", ",", "6">> => chosen = ","
    /\ sample = <<"a", ";", "b", "\n", "1", ";", "2">> => chosen = ";"

\* A sample with a scored line whose candidates all score zero has been answered
\* with comma, and the semicolon sample with semicolon.
C9_Witness ==
  /\ pc = "detect_delimiter_returned"
  /\ \/ ~NoNonBlankLine(sample) /\ AllScoresZero(sample) /\ chosen = ","
     \/ sample = <<"a", ";", "b", "\n", "1", ";", "2">> /\ chosen = ";"

\* ----------------------------------------------------------------------- C10
CandidateIndex(d) == CHOOSE i \in 1..Len(possible_delimiters) : possible_delimiters[i] = d

\* C10: two calls on the same sample return the same delimiter, and the delimiter
\* returned has the highest final score, every candidate before it in the order
\* comma, semicolon, pipe, tab scoring strictly less.
C10_FirstOfHighest ==
  /\ DelimiterChosen =>
       /\ \A d \in Candidates : FinalScore(sample, d) <= FinalScore(sample, chosen)
       /\ \A i \in 1..(CandidateIndex(chosen) - 1) :
            FinalScore(sample, possible_delimiters[i]) < FinalScore(sample, chosen)
  /\ pc = "detect_delimiter_returned" => chosen_again = chosen

\* Two candidates share a positive highest score and the earlier one was returned
\* by both calls.
C10_Witness ==
  /\ pc = "detect_delimiter_returned"
  /\ chosen_again = chosen
  /\ FinalScore(sample, chosen) > 0
  /\ \E i \in 1..Len(possible_delimiters) :
       /\ i > CandidateIndex(chosen)
       /\ FinalScore(sample, possible_delimiters[i]) = FinalScore(sample, chosen)

\* ------------------------------------------------------------------------ C4
\* load_csv has returned its document.
Returned == pc \in {"save_json", "save_json_returned"}
Written(message) == \E i \in 1..Len(stderr) : stderr[i] = message
FallbackRan == Returned /\ Written(ParsingError)

\* A line with an odd number of quote characters.
Unbalanced(line) == Count(line, quotechar) % 2 = 1

\* The fields of a line read on its own.
FieldsOf(line) == csv_reader(<<line>>, 1, ReaderStart, <<>>, delimiter_used[1])[1]

\* The value v of the document shows the raw field: the field itself or, with type
\* detection, what detection and a coercion toward a column type make of it.
Shows(v, field) ==
  \/ v = StrV(field)
  \/ /\ options.detect_types
     /\ \/ v = detect_type(StrV(field))
        \/ \E type_name \in {"int", "float", "bool", "string"} :
             v = Coerce(detect_type(StrV(field)), type_name)

\* The header row is read from the input: no custom headers and no missing header.
HeaderFromInput == options.custom_headers = <<>> /\ ~options.missing_header

\* The lines of the input read as data rows on the path of csv.reader, and the
\* names their fields go under in keyed mode.
DataLineNumbers ==
  {i \in 1..Len(fp_in) : i > primary_start + (IF HeaderFromInput THEN 1 ELSE 0)}
FieldNames ==
  IF options.custom_headers # <<>> THEN options.custom_headers
  ELSE FieldsOf(fp_in[primary_start + 1])

\* A data row that is well formed: balanced quotes, no comment, a field not blank.
WellFormedRow(i) ==
  /\ i \in DataLineNumbers
  /\ ~Unbalanced(fp_in[i]) /\ ~IsComment(fp_in[i])
  /\ \E j \in 1..Len(FieldsOf(fp_in[i])) :
       (loaded.keyed => j <= Len(FieldNames)) /\ ~IsNone(CleanValue(StrV(FieldsOf(fp_in[i])[j])))

\* The document holds a record for the line i: in keyed mode every field that is
\* not blank under its header, in positional mode the fields in their order.
HasRecordFor(i) ==
  LET fields == FieldsOf(fp_in[i])
  IN \E r \in 1..Len(loaded.rows) :
       IF loaded.keyed
       THEN \A j \in 1..Len(fields) :
              (j <= Len(FieldNames) /\ ~IsNone(CleanValue(StrV(fields[j])))) =>
                /\ HasKey(loaded.rows[r], FieldNames[j])
                /\ Shows(Get(loaded.rows[r], FieldNames[j]), fields[j])
       ELSE /\ Len(loaded.rows[r]) = Len(fields)
            /\ \A j \in 1..Len(fields) : Shows(loaded.rows[r][j], fields[j])

\* The input of the claim: read by csv.reader, its header row (if it has one) well
\* formed, and exactly one data row with unbalanced quotes.
OneMalformedRow ==
  /\ ValidDelimiter(delimiter_used) /\ delimiter_used # <<"\t">>
  /\ HeaderFromInput =>
       /\ primary_start < Len(fp_in)
       /\ ~Unbalanced(fp_in[primary_start + 1]) /\ ~IsBlank(fp_in[primary_start + 1])
  /\ Cardinality({i \in DataLineNumbers : Unbalanced(fp_in[i])}) = 1

\* C4: when one row of the input has unbalanced quotes, load_csv still returns a
\* document, and the document holds a record for each of the rows that are well
\* formed.
C4_RecordForEveryWellFormedRow ==
  (Returned /\ OneMalformedRow) => \A i \in 1..Len(fp_in) : WellFormedRow(i) => HasRecordFor(i)

\* ------------------------------------------------------------------------ C5
\* The first line after the position pos that is neither a comment nor blank, the
\* first line a parser started at pos makes a row of; Len + 1 when there is none.
FirstRowFrom(pos) ==
  LET later == {i \in (pos + 1)..Len(fp_in) : ~IsComment(fp_in[i]) /\ ~IsBlank(fp_in[i])}
  IN IF later = {} THEN Len(fp_in) + 1 ELSE CHOOSE i \in later : \A j \in later : i <= j

\* C5: when the primary parser raised, the lines the fallback tokenizes begin at
\* the line the primary parser started from: the skip count is applied once.
C5_FallbackStartsWherePrimaryStarted ==
  FallbackRan => FirstRowFrom(fallback_start) = FirstRowFrom(primary_start)

\* ------------------------------------------------------------------------ C8
\* The column count of the input: the number of fields of its first line that is
\* neither a comment nor blank.
ColumnCount ==
  LET line == fp_in[FirstRowFrom(0)]
  IN IF delimiter_used = <<"\t">>
     THEN Len(SelectSeq(ReSplitTabs(Strip(line)), LAMBDA f : Strip(f) # <<>>))
     ELSE Len(FieldsOf(line))

\* Custom headers whose count differs from the column count, the mismatch not
\* ignored, and the conversion done.
HeaderCountDiffers ==
  /\ Returned
  /\ options.custom_headers # <<>>
  /\ ~options.ignore_column_mismatch
  /\ delimiter_used = <<"\t">> \/ ValidDelimiter(delimiter_used)
  /\ FirstRowFrom(0) <= Len(fp_in)
  /\ ColumnCount # Len(options.custom_headers)

\* The warning is written and the records are keyed by declared headers only.
WarnedAndKeyed ==
  /\ Written(HeaderCountWarning)
  /\ loaded.keyed
  /\ \A r \in 1..Len(loaded.rows) : \A i \in 1..Len(loaded.rows[r]) :
       \E h \in 1..Len(options.custom_headers) : loaded.rows[r][i].k = options.custom_headers[h]

\* The rows csv.reader reads from where the parser started that come out as
\* records: those with a field that is not blank under one of the headers.
RecordRows ==
  SelectSeq(csv_reader(Drop(fp_in, primary_start), 1, ReaderStart, <<>>, delimiter_used[1]),
            LAMBDA row : \E j \in 1..Len(row) :
                           /\ j <= Len(options.custom_headers)
                           /\ ~IsNone(CleanValue(StrV(row[j]))))

\* Record r is row r under the declared headers: field j under header j, nothing
\* of the fields beyond the headers, and the headers beyond the fields Null
\* (padded) or else absent.
RowUnderHeaders(r, padded) ==
  LET row == RecordRows[r]
      record == loaded.rows[r]
  IN \A j \in 1..Len(options.custom_headers) :
       LET header == options.custom_headers[j]
       IN IF j > Len(row)
          THEN IF padded THEN HasKey(record, header) /\ IsNone(Get(record, header))
               ELSE ~HasKey(record, header)
          ELSE ~IsNone(CleanValue(StrV(row[j]))) =>
                 HasKey(record, header) /\ Shows(Get(record, header), row[j])

\* The statement of C8 as written: with custom headers whose count differs from
\* the column count and the mismatch not ignored, the warning is written and the
\* conversion produces records keyed by the declared headers; on the path of
\* csv.reader a short row has Null under the headers it lacks and a long row
\* loses its surplus fields.
C8_ShortRowsAlwaysPadded ==
  HeaderCountDiffers =>
    /\ WarnedAndKeyed
    /\ delimiter_used # <<"\t">> =>
         /\ Len(loaded.rows) = Len(RecordRows)
         /\ \A r \in 1..Len(loaded.rows) : RowUnderHeaders(r, TRUE)

\* C8 as amended: the same, the headers a short row lacks being Null when
\* remove_empty is unset and absent from the record when it is set.
C8_ShortRowsPaddedUnlessRemoved ==
  HeaderCountDiffers =>
    /\ WarnedAndKeyed
    /\ delimiter_used # <<"\t">> =>
         /\ Len(loaded.rows) = Len(RecordRows)
         /\ \A r \in 1..Len(loaded.rows) : RowUnderHeaders(r, ~options.remove_empty)

\* A conversion with two declared headers over rows of one and of three fields:
\* the warning written, a record padded with Null and a row that lost a field.
C8_Witness ==
  /\ HeaderCountDiffers
  /\ delimiter_used = <<",">>
  /\ Written(HeaderCountWarning)
  /\ Len(loaded.rows) = Len(RecordRows)
  /\ \E r \in 1..Len(loaded.rows) :
       /\ Len(RecordRows[r]) < Len(options.custom_headers)
       /\ \E i \in 1..Len(loaded.rows[r]) : IsNone(loaded.rows[r][i].v)
  /\ \E r \in 1..Len(loaded.rows) :
       /\ Len(RecordRows[r]) > Len(options.custom_headers)
       /\ Len(loaded.rows[r]) = Len(options.custom_headers)

\* ------------------------------------------------------------------------- C11
\* The lines of the input up to the position pos that are no comments.
NonComments(pos) == Cardinality({i \in 1..pos : ~IsComment(fp_in[i])})

\* C11: when the parser is started, the lines consumed hold skip_first_row lines
\* that are no comments, or every such line of the input when it has fewer (the
\* comment lines on the way are consumed and not counted), and the line at the
\* position is no comment: the comment lines after the skipped ones are consumed too.
C11_ParsingStartsAfterSkipped ==
  pc = "parse" =>
    /\ NonComments(fp_pos) =
         IF options.skip_first_row <= NonComments(Len(fp_in))
         THEN options.skip_first_row ELSE NonComments(Len(fp_in))
    /\ fp_pos = Len(fp_in) \/ ~IsComment(fp_in[fp_pos + 1])

\* Rows were skipped, the last line consumed is a comment and a line that is no
\* comment is left for the parser.
C11_Witness ==
  /\ pc = "parse"
  /\ options.skip_first_row > 0
  /\ NonComments(fp_pos) = options.skip_first_row
  /\ 0 < fp_pos /\ fp_pos < Len(fp_in)
  /\ IsComment(fp_in[fp_pos])

\* ------------------------------------------------------------------------- C12
\* C12: with remove_empty set, no record of a keyed document that load_csv returns
\* holds a None value, whichever parser made the records.
C12_NoNullWhenRemoveEmpty ==
  (Returned /\ options.remove_empty /\ loaded.keyed) =>
    \A r \in 1..Len(loaded.rows) : \A i \in 1..Len(loaded.rows[r]) :
      ~IsNone(loaded.rows[r][i].v)

\* ------------------------------------------------------------------------- C13
\* C13: when convert ends with an exception, the output file is as it was before
\* the call: it is not emptied and holds no part of a document.
C13_OutputNotLeftPartial ==
  pc = "convert_raised" => json_file \in {NoFile, PreviousFile}

\* ------------------------------------------------------------------------- C14
\* C14: no call of convert_data_types ends with the exception of a coercion.
C14_CoercionNeverRaises == pc # "convert_data_types_raised"

\* ------------------------------------------------------------------------- C15
\* A list of values, and a dict with at least one item.
IsList(row) == \A j \in 1..Len(row) : DOMAIN row[j] = {"tag", "n", "s"}
IsDict(row) == row # <<>> /\ \A j \in 1..Len(row) : DOMAIN row[j] = {"k", "v"}

\* A header is at hand: custom headers, or a first line that is taken for one.
HeaderAvailable == options.custom_headers # <<>> \/ ~options.missing_header

\* C15: the records of a document load_csv returns are all lists or all dicts,
\* whatever the delimiter, the options and the parser that produced it; a
\* document with records holds dicts exactly when a header is at hand, and an
\* input without a line to take a header from gives no record with a field.
C15_OneModePerDocument ==
  Returned =>
    /\ loaded.keyed => \A r \in 1..Len(loaded.rows) : IsDict(loaded.rows[r])
    /\ ~loaded.keyed => \A r \in 1..Len(loaded.rows) : IsList(loaded.rows[r])
    /\ loaded.rows # <<>> => (loaded.keyed <=> HeaderAvailable)
    /\ (options.custom_headers = <<>> /\ \A i \in 1..Len(fp_in) : IsBlank(fp_in[i]))
         => \A r \in 1..Len(loaded.rows) : loaded.rows[r] = <<>>

\* Two dicts returned under custom headers for an input whose header is missing.
C15_Witness ==
  /\ Returned
  /\ options.missing_header /\ options.custom_headers # <<>>
  /\ loaded.keyed /\ Len(loaded.rows) >= 2
  /\ \A r \in 1..Len(loaded.rows) : IsDict(loaded.rows[r])

\* ------------------------------------------------------------------------- C16
\* The tag of the values of a type name.
TagOfType(type_name) == IF type_name = "string" THEN "str" ELSE type_name

\* C16: when the transforms declare a type for the column name only, every value
\* of the column c that convert_data_types returns has the type inferred for c
\* from the detected rows.
C16_UndeclaredColumnCoerced ==
  (doc_outputs # <<>> /\ doc_transforms # <<>> /\ ~HasKey(doc_transforms, ColC)) =>
    \A inferred \in {ColumnType(DetectPass(doc_input, <<>>, doc_transforms), ColC)} :
      \A r \in 1..Len(doc_outputs[1]) : \A i \in 1..Len(doc_outputs[1][r]) :
        LET item == doc_outputs[1][r][i]
        IN (item.k = ColC /\ ~IsNone(item.v)) => item.v.tag = TagOfType(inferred)

\* ------------------------------------------------------------------------- C17
\* The rows a call without transforms infers the column types from.
DetectedInput == DetectPass(doc_input, <<>>, <<>>)

\* How many rows hold a value of the tag in the column c.
Tagged(rows, tag) ==
  Cardinality({r \in 1..Len(rows) : HasKey(rows[r], ColC) /\ Get(rows[r], ColC).tag = tag})

\* The dominant type of the column c as the rule states it.
Dominant(rows) ==
  LET ints == Tagged(rows, "int")
      floats == Tagged(rows, "float")
      bools == Tagged(rows, "bool")
      strings == Tagged(rows, "str")
  IN IF ints + floats + bools + strings = 0 THEN "string"
     ELSE IF bools + strings = 0 /\ floats > 0 THEN "float"
     ELSE IF ints >= floats /\ ints >= bools /\ ints >= strings THEN "int"
     ELSE IF floats >= bools /\ floats >= strings THEN "float"
     ELSE IF bools >= strings THEN "bool"
     ELSE "string"

\* C17: the type inferred for a column is the tag most of its values that are not
\* None have, the first of int, float, bool, string among equals; it is float when
\* all of them are numbers and one is a float; it is string when there is none.
C17_DominantType ==
  (doc_transforms = <<>> /\ doc_input # <<>> /\ HasKey(doc_input[1], ColC)) =>
    \A rows \in {DetectedInput} : \A column_types \in {infer_column_types(rows)} :
      /\ HasKey(column_types, ColC)
      /\ Get(column_types, ColC) = Dominant(rows)

\* A returned call on a column where the ints outnumber the one float: float was
\* inferred and every number came out a float.
C17_Witness ==
  /\ doc_outputs # <<>> /\ doc_transforms = <<>> /\ doc_input # <<>>
  /\ HasKey(doc_input[1], ColC)
  /\ \E rows \in {DetectedInput} :
       /\ Tagged(rows, "int") = 2 /\ Tagged(rows, "float") = 1
       /\ Get(infer_column_types(rows), ColC) = "float"
  /\ \A r \in 1..Len(doc_outputs[1]) : IsFloat(Get(doc_outputs[1][r], ColC))

\* ------------------------------------------------------------------------- C18
\* C18: without a key list the inferred types have an entry for the keys of the
\* first record and for no other key; when the first record lacks the column c,
\* the values of c in the later records are returned as they were detected.
C18_KeysOfFirstRecord ==
  (doc_transforms = <<>> /\ doc_input # <<>>) =>
    \A rows \in {DetectedInput} :
      /\ Keys(infer_column_types(rows)) = Keys(rows[1])
      /\ (doc_outputs # <<>> /\ ~HasKey(rows[1], ColC)) =>
           \A r \in 1..Len(rows) :
             HasKey(rows[r], ColC) => Get(doc_outputs[1][r], ColC) = Get(rows[r], ColC)

\* The first record holds another column only, and the column c came out an int
\* in one later record and a float in another.
C18_Witness ==
  /\ doc_outputs # <<>> /\ doc_transforms = <<>> /\ Len(doc_input) = 3
  /\ HasKey(doc_input[1], ColName) /\ ~HasKey(doc_input[1], ColC)
  /\ HasKey(doc_input[2], ColC) /\ HasKey(doc_input[3], ColC)
  /\ IsStr(Get(doc_input[2], ColC)) /\ IsStr(Get(doc_input[3], ColC))
  /\ IsInstInt(Get(doc_outputs[1][2], ColC)) /\ ~IsBool(Get(doc_outputs[1][2], ColC))
  /\ IsFloat(Get(doc_outputs[1][3], ColC))

\* ------------------------------------------------------------------------- C19
\* The document of the primary parser of a delimiter that is no tab, in dicts.
PrimaryKeyed == Returned /\ ~FallbackRan /\ delimiter_used # <<"\t">> /\ loaded.keyed

\* C19: no record of such a document has a field under the empty key or under a
\* key that is "null" in any case.
C19_NoEmptyOrNullKey ==
  PrimaryKeyed =>
    \A r \in 1..Len(loaded.rows) : \A i \in 1..Len(loaded.rows[r]) :
      /\ loaded.rows[r][i].k # <<>>
      /\ Lower(loaded.rows[r][i].k) # <<"n", "u", "l", "l">>

\* ------------------------------------------------------------------------- C20
\* C20: every dict the primary parser returns, on the path of the tab and on the
\* path of the other delimiters, holds a value that is not None.
C20_NoAllNullRecord ==
  (Returned /\ ~FallbackRan /\ loaded.keyed) =>
    \A r \in 1..Len(loaded.rows) :
      \E i \in 1..Len(loaded.rows[r]) : ~IsNone(loaded.rows[r][i].v)

\* Under the header a,b a line of two empty fields was read and left out, and
\* the other data lines gave a record each.
C20_Witness ==
  /\ Returned /\ ~FallbackRan /\ loaded.keyed
  /\ options.custom_headers = <<>> /\ options.skip_first_row = 0
  /\ Len(fp_in) = 3 /\ fp_in[1] = <<"a", ",", "b">>
  /\ \E i \in 2..3 : fp_in[i] = <<",">>
  /\ \E i \in 2..3 : fp_in[i] = <<"3", ",", "4">>
  /\ Len(loaded.rows) = 1
  /\ \E i \in 1..Len(loaded.rows[1]) : ~IsNone(loaded.rows[1][i].v)

\* ------------------------------------------------------------------------- C21
\* The document of the tab parser, in dicts of text as it was tokenized.
TabKeyedRaw ==
  /\ Returned /\ ~FallbackRan /\ delimiter_used = <<"\t">>
  /\ loaded.keyed /\ ~options.detect_types

\* The fields of a line: the pieces between single tabs that are not empty (a run
\* of tabs leaves empty pieces between its tabs), each without its blanks.
FieldsAtTabs(line) ==
  LET pieces == SelectSeq(SplitOn(Strip(line), <<"\t">>), LAMBDA f : f # <<>>)
  IN [j \in 1..Len(pieces) |-> Strip(pieces[j])]

\* The lines the tab parser makes rows of, the headers, and the data lines.
TabRowLines ==
  SelectSeq(Drop(fp_in, primary_start), LAMBDA l : ~IsBlank(l) /\ ~IsComment(l))
TabHeaders ==
  IF options.custom_headers # <<>> THEN options.custom_headers
  ELSE SelectSeq(FieldsAtTabs(TabRowLines[1]), LAMBDA h : h # <<>>)
TabDataLines == IF options.custom_headers # <<>> THEN TabRowLines ELSE Tail(TabRowLines)

\* Fields without the blank ones they begin with.
RECURSIVE WithoutLeadingBlanks(_)
WithoutLeadingBlanks(fields) ==
  IF fields # <<>> /\ Head(fields) = <<>> THEN WithoutLeadingBlanks(Tail(fields)) ELSE fields

\* The value under header j of a row of fields: field j, and under the last
\* header field j and the fields beyond it joined by single spaces.
ValueUnder(fields, j, headers) ==
  LET joined == IF j = Len(headers)
                THEN Join(WithoutLeadingBlanks(SubSeq(fields, j, Len(fields))), <<" ">>)
                ELSE fields[j]
  IN IF joined = <<>> THEN None ELSE StrV(joined)

\* C21: on the path of the tab, with the headers h1..hn, the record of a data line
\* holds field i under header hi for i below n and, under hn, field n and every
\* field beyond it in their order, joined by single spaces; the fields are the
\* pieces that single tabs separate, a run of tabs counting as one.
C21_TabRunsAndOverflow ==
  TabKeyedRaw =>
    /\ Len(loaded.rows) = Len(TabDataLines)
    /\ \A r \in 1..Len(loaded.rows) :
         \A fields \in {FieldsAtTabs(TabDataLines[r])} :
           /\ Len(loaded.rows[r]) = (IF Len(fields) < Len(TabHeaders) THEN Len(fields)
                                     ELSE Len(TabHeaders))
           /\ \A j \in 1..Len(loaded.rows[r]) :
                /\ loaded.rows[r][j].k = TabHeaders[j]
                /\ loaded.rows[r][j].v = ValueUnder(fields, j, TabHeaders)

\* A line of three fields, two of them after a run of two tabs, under two headers.
C21_Witness ==
  /\ TabKeyedRaw
  /\ Len(TabHeaders) = 2
  /\ \E r \in 1..Len(loaded.rows) :
       /\ TabDataLines[r] = <<"3", "\t", "\t", "4", "\t", "5">>
       /\ loaded.rows[r][1].v = StrV(<<"3">>)
       /\ loaded.rows[r][2].v = StrV(<<"4", " ", "5">>)

\* ------------------------------------------------------------------------- C22
\* The fields of a line cut at the delimiters outside quotes, by a scan over its
\* characters that a quote character toggles; the quote characters at the ends
\* of a field are left out.
RECURSIVE FieldsOutsideQuotes(_, _, _, _)
FieldsOutsideQuotes(chars, in_quotes, field, delimiter) ==
  IF chars = <<>> THEN <<StripChars(field, {quotechar})>>
  ELSE IF ~in_quotes /\ StartsWith(chars, delimiter)
  THEN <<StripChars(field, {quotechar})>>
         \o FieldsOutsideQuotes(Drop(chars, Len(delimiter)), in_quotes, <<>>, delimiter)
  ELSE FieldsOutsideQuotes(Tail(chars), IF Head(chars) = quotechar THEN ~in_quotes ELSE in_quotes,
                           Append(field, Head(chars)), delimiter)

\* The data lines of the fallback in keyed mode under custom headers.
FallbackDataLines ==
  SelectSeq(Drop(fp_in, fallback_start), LAMBDA l : ~IsBlank(l) /\ ~IsComment(l))

\* C22: in keyed mode under custom headers, without type detection, when every
\* data line of the fallback begins with the quote character, record r holds the
\* fields of data line r that lie outside quotes, in their order.
C22_KeyedFieldsOutsideQuotes ==
  ( /\ FallbackRan /\ loaded.keyed /\ ~options.detect_types /\ options.custom_headers # <<>>
    /\ \A i \in 1..Len(FallbackDataLines) : Head(Strip(FallbackDataLines[i])) = quotechar ) =>
    /\ Len(loaded.rows) = Len(FallbackDataLines)
    /\ \A r \in 1..Len(loaded.rows) :
         \A fields \in {FieldsOutsideQuotes(Strip(FallbackDataLines[r]), FALSE, <<>>,
                                             delimiter_used)} :
           \A j \in 1..Len(loaded.rows[r]) :
             /\ j <= Len(fields)
             /\ loaded.rows[r][j].v = (IF fields[j] = <<>> THEN None ELSE StrV(fields[j]))

\* ------------------------------------------------------------------------- C23
\* The data lines of the fallback that begin with the quote character, by their
\* numbers among its data lines, and the lines that follow line p up to the next
\* of them.
QuotedLineNumbers ==
  {p \in 1..Len(FallbackDataLines) : Head(Strip(FallbackDataLines[p])) = quotechar}
QuotedLine(r) ==
  CHOOSE p \in QuotedLineNumbers : Cardinality({q \in QuotedLineNumbers : q <= p}) = r
LinesJoinedTo(p) ==
  LET next == {q \in QuotedLineNumbers : q > p}
      end == IF next = {} THEN Len(FallbackDataLines)
             ELSE (CHOOSE q \in next : \A o \in next : q <= o) - 1
  IN [i \in 1..(end - p) |-> Strip(FallbackDataLines[p + i])]

\* The record of the quoted line alone, and the first of its fields with content.
RecordOfLine(p) ==
  SplitRow(SplitOn(Strip(FallbackDataLines[p]), delimiter_used), 1, options.custom_headers, <<>>)
FieldsWithContent(record) == {j \in 1..Len(record) : ~IsNone(record[j].v)}

\* C23: in the keyed mode of the fallback (custom headers, no type detection) the
\* records are those of the data lines that begin with the quote character; every
\* other data line is joined with a space, whole and in its turn, to the first
\* field with content of the record before it, and to no other field; it is left
\* out when there is no record before it or no field with content.
C23_ContinuationLines ==
  (FallbackRan /\ loaded.keyed /\ ~options.detect_types /\ options.custom_headers # <<>>) =>
    /\ Len(loaded.rows) = Cardinality(QuotedLineNumbers)
    /\ \A r \in 1..Len(loaded.rows) :
         \A record \in {RecordOfLine(QuotedLine(r))} :
           \A joined \in {LinesJoinedTo(QuotedLine(r))} :
             /\ Len(loaded.rows[r]) = Len(record)
             /\ \A j \in 1..Len(record) :
                  loaded.rows[r][j] =
                    IF FieldsWithContent(record) # {} /\ joined # <<>>
                       /\ j \in FieldsWithContent(record)
                       /\ \A i \in FieldsWithContent(record) : j <= i
                    THEN [k |-> record[j].k,
                          v |-> StrV(Join(<<record[j].v.s>> \o joined, <<" ">>))]
                    ELSE record[j]

\* A line that begins with the delimiter was joined to the second field of a
\* record whose first field is empty.
C23_Witness ==
  /\ FallbackRan /\ loaded.keyed /\ ~options.detect_types /\ options.custom_headers # <<>>
  /\ \E r \in 1..Len(loaded.rows) :
       /\ Len(loaded.rows[r]) = 2
       /\ IsNone(loaded.rows[r][1].v)
       /\ loaded.rows[r][2].v = StrV(<<"2", " ", ":", ":", "y">>)

\* ------------------------------------------------------------------------- C24
\* C24: with type detection, the fallback returns lists for an input whose header
\* is missing and not declared, and no text in them is one the type detector
\* would have changed, whatever the delimiter.
C24_PositionalScalarsDetected ==
  ( /\ pc = "save_json" /\ options.missing_header /\ options.custom_headers = <<>>
    /\ options.detect_types ) =>
    /\ ~loaded.keyed
    /\ \A r \in 1..Len(loaded.rows) : \A j \in 1..Len(loaded.rows[r]) :
         IsStr(loaded.rows[r][j]) => detect_type(loaded.rows[r][j]) = loaded.rows[r][j]

\* ------------------------------------------------------------------------- C25
\* The entries of the directive, the name of an entry and its segments.
EntriesOf == Split(transform_arg, ",")
AfterFirst(t, c) == SubSeq(t, IndexOf(t, c) + 1, Len(t))
NameOfEntry(e) == Strip(SubSeq(e, 1, IndexOf(e, ":") - 1))
Named(e) == Contains(e, ":") /\ NameOfEntry(e) # <<>>
SegmentsOf(e) == Split(AfterFirst(e, ":"), "/")

\* The synonyms of the type names.
Synonyms ==
  { <<<<"s", "t", "r", "i", "n", "g">>, "string">>,
    <<<<"s", "t", "r">>, "string">>,
    <<<<"t", "e", "x", "t">>, "string">>,
    <<<<"n", "u", "m", "b", "e", "r">>, "float">>,
    <<<<"n", "u", "m">>, "float">>,
    <<<<"f", "l", "o", "a", "t">>, "float">>,
    <<<<"i", "n", "t", "e", "g", "e", "r">>, "int">>,
    <<<<"i", "n", "t">>, "int">>,
    <<<<"b", "o", "o", "l", "e", "a", "n">>, "bool">>,
    <<<<"b", "o", "o", "l">>, "bool">> }
Resolved(segment) ==
  IF \E pair \in Synonyms : pair[1] = Lower(Strip(segment))
  THEN (CHOOSE pair \in Synonyms : pair[1] = Lower(Strip(segment)))[2]
  ELSE "string"

\* The segments after the type that give an operation, and the operation of one.
IsReplace(segment) == StartsWith(segment, <<"r", "e", "p", "l", "a", "c", "e", ":">>)
GivesOperation(segment) ==
  /\ Strip(segment) # <<>>
  /\ IsReplace(segment) => Contains(AfterFirst(segment, ":"), "=")
OperationOf(segment, op) ==
  IF IsReplace(segment)
  THEN /\ op.name = <<"r", "e", "p", "l", "a", "c", "e">>
       /\ Len(op.params) = 2
       /\ ~Contains(op.params[1], "=")
       /\ op.params[1] \o <<"=">> \o op.params[2] = AfterFirst(segment, ":")
  ELSE op.name = Lower(Strip(segment)) /\ op.params = <<>>

\* The names of the operations without parameters that change text.
KnownOperations == {<<"u", "p", "p", "e", "r">>, <<"l", "o", "w", "e", "r">>, <<"t", "r", "i", "m">>, <<"c", "a", "p", "i", "t", "a", "l", "i", "z", "e">>, <<"t", "i", "t", "l", "e">>}

\* The spec of a column is the one of the last entry that names it.
SpecOfEntry(e, spec) ==
  LET later == SelectSeq(Tail(SegmentsOf(e)), GivesOperation)
  IN /\ spec.type = Resolved(SegmentsOf(e)[1])
     /\ Len(spec.transformations) = Len(later)
     /\ \A n \in 1..Len(later) : OperationOf(later[n], spec.transformations[n])

\* C25: the transforms parsed from a directive have one spec for each column
\* that an entry with a colon names, and no other; the spec has the type its first
\* segment resolves to and, in their order, the operations of the later segments
\* that are not empty: a replace with its two texts cut at the first "=", left
\* out when it has no "=", or the lower-cased name; an operation of a name that is
\* not known changes no value.
C25_TransformSpecs ==
  pc # "parse_transforms" =>
    /\ \A i \in 1..Len(EntriesOf) :
         Named(EntriesOf[i]) => HasKey(doc_transforms, NameOfEntry(EntriesOf[i]))
    /\ \A j \in 1..Len(doc_transforms) :
         /\ \A k \in 1..Len(doc_transforms) : doc_transforms[k].k = doc_transforms[j].k => k = j
         /\ \E i \in 1..Len(EntriesOf) :
              /\ Named(EntriesOf[i]) /\ NameOfEntry(EntriesOf[i]) = doc_transforms[j].k
              /\ \A l \in (i + 1)..Len(EntriesOf) :
                   ~(Named(EntriesOf[l]) /\ NameOfEntry(EntriesOf[l]) = doc_transforms[j].k)
              /\ SpecOfEntry(EntriesOf[i], doc_transforms[j].v)
         /\ \A n \in 1..Len(doc_transforms[j].v.transformations) :
              LET op == doc_transforms[j].v.transformations[n]
              IN (op.params = <<>> /\ op.name \notin KnownOperations) =>
                   \A v \in NameCells : apply_transformations(v, <<op>>) = v

\* A directive with a synonym, an operation written in capitals between blanks
\* and an unknown operation was parsed and applied: the value came out in
\* capitals and the unknown operation is in the list.
C25_Witness ==
  /\ doc_outputs # <<>>
  /\ transform_arg = <<"n", "a", "m", "e", ":", "T", "E", "X", "T", "/", " ", "U", "p", "p", "e", "r", " ", "/", "f", "r", "o", "b", ",", "c", ":", "i", "n", "t", "e", "g", "e", "r">>
  /\ HasKey(doc_transforms, ColName) /\ HasKey(doc_transforms, ColC)
  /\ Get(doc_transforms, ColName).type = "string"
  /\ Get(doc_transforms, ColName).transformations =
       <<[name |-> <<"u", "p", "p", "e", "r">>, params |-> <<>>], [name |-> <<"f", "r", "o", "b">>, params |-> <<>>]>>
  /\ Get(doc_transforms, ColC).type = "int"
  /\ Get(doc_input[1], ColName) = StrV(<<"a", "X", "a">>)
  /\ Get(doc_outputs[1][1], ColName) = StrV(<<"A", "X", "A">>)

\* ------------------------------------------------------------------------- C26
\* The value at a place of a document, and the document load_csv makes of this
\* input under other options by the parser that made the one it returned.
ValueAt(doc, r, j) == IF doc.keyed THEN doc.rows[r][j].v ELSE doc.rows[r][j]
LoadedUnder(opts) ==
  IF Written(ParsingError)
  THEN fallback_csv_parse(fp_in, SkipRows(fp_in, 0, opts.skip_first_row), delimiter_used, opts)
  ELSE IF delimiter_used = <<"\t">>
       THEN parse_tab_delimited_file(fp_in, primary_start, opts.custom_headers,
                                     opts.missing_header, opts.detect_types, opts.transforms)
       ELSE PrimaryParse(fp_in, primary_start, delimiter_used, opts)

\* C26: with type detection off, the document load_csv returns holds text and
\* None only, and it is the document the same call returns without transforms.
C26_DetectionOffNoConversion ==
  (pc = "save_json" /\ ~options.detect_types) =>
    /\ \A r \in 1..Len(loaded.rows) : \A j \in 1..Len(loaded.rows[r]) :
         IsStr(ValueAt(loaded, r, j)) \/ IsNone(ValueAt(loaded, r, j))
    /\ loaded = LoadedUnder([options EXCEPT !.transforms = <<>>])

\* Type detection was off and transforms were given for the column a: the record
\* holds the small letter, which the transforms, had they run, would have made a
\* capital.
C26_Witness ==
  /\ pc = "save_json" /\ ~options.detect_types /\ options.transforms = UpperA
  /\ loaded.keyed /\ loaded.rows # <<>>
  /\ HasKey(loaded.rows[1], <<"a">>) /\ Get(loaded.rows[1], <<"a">>) = StrV(<<"a">>)
  /\ Get(convert_data_types(loaded.rows, <<>>, options.transforms)[1], <<"a">>) = StrV(<<"A">>)

\* ------------------------------------------------------------------------- C27
\* C27: the rows are skipped from the position load_csv was called at, the start
\* of the input, whether the delimiter was detected from a sample or given and
\* whether custom headers were validated or not; the parser starts after the
\* skipped rows and the comment lines behind them, counted from there.
C27_SkippingStartsAtCallPosition ==
  /\ pc = "skip_rows" => fp_pos = 0
  /\ pc = "parse" =>
       fp_pos = SkipComments(fp_in, SkipRows(fp_in, 0, options.skip_first_row))

\* The delimiter was detected from a sample and the custom headers were validated
\* against the line behind a comment line; the rows are about to be skipped.
C27_Witness ==
  /\ pc = "skip_rows"
  /\ Written(AutoDetected)
  /\ options.custom_headers # <<>>
  /\ Len(fp_in) >= 2
  /\ IsComment(fp_in[1]) /\ ~IsComment(fp_in[2]) /\ ~IsBlank(fp_in[2])
  /\ fp_pos = 0

\* ------------------------------------------------------------------------- C28
\* What the type int makes of a value, as the rule states it: a number is text
\* that float() reads.
UnderInt(value, result) ==
  IF value.tag \in {"int", "bool"} THEN result = value
  ELSE IF IsFloat(value)
  THEN IF value.n % FloatScale = 0 THEN result = IntV(value.n \div FloatScale)
       ELSE result = value
  ELSE \A f \in {PyFloat(value.s)} :
         IF ~f[1] THEN result = value
         ELSE IF f[2] % FloatScale = 0 THEN result = IntV(f[2] \div FloatScale)
         ELSE result = FloatV(f[2])

\* The value of a place as the second pass coerces it: as detected, and transformed
\* when its column has transforms.
BeforeCoercion(detected_rows, r, i) ==
  IF HasKey(doc_transforms, detected_rows[r][i].k)
  THEN apply_transformations(detected_rows[r][i].v,
                             Get(doc_transforms, detected_rows[r][i].k).transformations)
  ELSE detected_rows[r][i].v

\* C28: in a column whose type is int, the first call returns a whole float and
\* whole numeric text as an int, ints, bools and text that is no number as they
\* were, and numeric text with a fractional part as a float.
C28_CoercionUnderInt ==
  doc_outputs # <<>> =>
    \A detected_rows \in {DetectPass(doc_input, <<>>, doc_transforms)} :
      \A types \in {ColumnTypes(detected_rows, <<>>, doc_transforms)} :
        \A r \in 1..Len(detected_rows) : \A i \in 1..Len(detected_rows[r]) :
          ( /\ HasKey(types, detected_rows[r][i].k)
            /\ Get(types, detected_rows[r][i].k) = "int"
            /\ ~IsNone(detected_rows[r][i].v) ) =>
            UnderInt(BeforeCoercion(detected_rows, r, i), doc_outputs[1][r][i].v)

\* The column name is declared int and holds "2.5" and "1X" with the X to be
\* removed: the first came out as the float 2.5, the second as the int 1.
C28_Witness ==
  /\ doc_outputs # <<>>
  /\ HasKey(doc_transforms, ColName) /\ Get(doc_transforms, ColName).type = "int"
  /\ Len(doc_input) = 2
  /\ Get(doc_input[1], ColName) = StrV(<<"2", ".", "5">>)
  /\ Get(doc_input[2], ColName) = StrV(<<"1", "X">>)
  /\ Get(doc_outputs[1][1], ColName) = FloatV(25 * (FloatScale \div 10))
  /\ Get(doc_outputs[1][2], ColName) = IntV(1)

\* ------------------------------------------------------------------------- C29
\* The records that have the id field, and the id of one.
WithId == {r \in 1..Len(loaded.rows) : HasId(loaded.rows[r])}
IdOf(r) == Get(loaded.rows[r], id_option)

ReaderReturned == pc = "save_json" /\ ~Written(ParsingError) /\ delimiter_used # <<"\t">>
OtherParserReturned == pc = "save_json" /\ (Written(ParsingError) \/ delimiter_used = <<"\t">>)

\* The line the reader takes the header from, the first it reads; 0 when it takes
\* none from the input.
HeaderLine == IF HeaderFromInput /\ primary_start < Len(fp_in) THEN primary_start + 1 ELSE 0

\* The comment lines the reader meets as rows: those behind the header line or,
\* without a header in the input, behind the position the reader starts at.
CommentRows ==
  {i \in (primary_start + 1)..Len(fp_in) :
     /\ IsComment(fp_in[i])
     /\ HeaderFromInput => (HeaderLine # 0 /\ i > HeaderLine)}

\* The first field of a row is kept: a value of a list, or the value of a name
\* that is not "null" and that no later name repeats.
FirstFieldKept ==
  ~loaded.keyed \/
    \A names \in {IF options.custom_headers # <<>> THEN options.custom_headers
                   ELSE IF HeaderLine = 0 THEN <<>> ELSE FieldsOf(fp_in[HeaderLine])} :
      /\ names # <<>>
      /\ Lower(names[1]) # <<"n", "u", "l", "l">>
      /\ \A j \in 2..Len(names) : names[j] # names[1]

\* The records whose first value is text that begins with "#".
RecordsOfComments ==
  {r \in 1..Len(loaded.rows) :
     /\ loaded.rows[r] # <<>>
     /\ IsStr(ValueAt(loaded, r, 1))
     /\ StartsWith(Strip(ValueAt(loaded, r, 1).s), <<"#">>)}

\* A value or a name of the document holds the character "#".
HoldsHash(doc) ==
  \E r \in 1..Len(doc.rows) : \E j \in 1..Len(doc.rows[r]) :
    \/ IsStr(ValueAt(doc, r, j)) /\ Contains(ValueAt(doc, r, j).s, "#")
    \/ doc.keyed /\ Contains(doc.rows[r][j].k, "#")

\* C30: on the csv.reader path every comment line behind the header (or behind
\* the start, when the input has no header) comes out as a record of its own,
\* read like any other row, where no quote is left open and the first field of a
\* row is kept; the tab parser and the fallback return nothing of a comment line.
C30_CommentsAfterStartAreRows ==
  /\ ( /\ ReaderReturned
       /\ \A i \in (primary_start + 1)..Len(fp_in) : ~Unbalanced(fp_in[i])
       /\ FirstFieldKept ) =>
       Cardinality(RecordsOfComments) = Cardinality(CommentRows)
  /\ OtherParserReturned => ~HoldsHash(loaded)

\* The input a,b / #c / 3,4 read with the comma: the comment line is the first
\* record, with its text under a and nothing under b.
C30_Witness ==
  /\ ReaderReturned
  /\ fp_in = <<<<"a", ",", "b">>, <<"#", "c">>, <<"3", ",", "4">>>>
  /\ options = DefaultOptions
  /\ CommentRows = {2}
  /\ Len(loaded.rows) = 2
  /\ loaded.rows[1] = <<[k |-> <<"a">>, v |-> StrV(<<"#", "c">>)], [k |-> <<"b">>, v |-> None]>>

====
